---- MODULE Spec2Model ----
\* Hotel key card system (hotel.py): the fixed-length record codec, the
\* file-backed FixedStore, and the HotelService operations over the four
\* stores rooms / guests / stays / keycards.
\*
\* A store file is modelled as the sequence of its slots; a slot holds the
\* packed form of a record (text fields as fixed-width zero-padded byte
\* blocks).  Slot indexes are 1-based here and 0-based in the code.
\* Text values are sequences of code points, byte blocks sequences of 0..255.
EXTENDS Integers, Sequences, FiniteSets, TLC

\* rooms, guests, stays, keycards: the four store files, as sequences of slots
\* now:  the second now_ts() returns
\* last: the operation called last, with its arguments and its return value
\* nops: the number of operations called so far
\* file: the bytes of one store file, for the byte-level view of FixedStore
VARIABLES rooms, guests, stays, keycards, now, last, nops, file

vars == <<rooms, guests, stays, keycards, now, last, nops, file>>
stores == <<rooms, guests, stays, keycards>>

\* ---------------------------------------------------------------- bounds
\* operations (clock ticks included) in one run, and seconds the clock advances
MaxOps == 5
MaxTime == 1
\* slots of a store file found at start-up
MaxSlots == 3
\* bytes of a store file found at start-up
MaxFileLen == 40

\* ------------------------------------------------------- status constants
ROOM_DELETED == 0
ROOM_ACTIVE_VACANT == 1
ROOM_ACTIVE_OCCUPIED == 2
GUEST_DELETED == 0
GUEST_ACTIVE == 1
STAY_DELETED == 9
STAY_OPEN == 1
STAY_CLOSED == 0
KEYCARD_DELETED == 0
KEYCARD_ACTIVE == 1

\* slot sizes of the four stores
ROOM_SIZE == 64
GUEST_SIZE == 112
STAY_SIZE == 64
KEYCARD_SIZE == 32

\* struct.Struct(...).size of the four layouts
ROOM_STRUCT_size == 48
GUEST_STRUCT_size == 101
STAY_STRUCT_size == 48
KEYCARD_STRUCT_size == 30

\* field widths of the struct layouts
ROOM_TYPE_LEN == 20
FULL_NAME_LEN == 50
PHONE_LEN == 15
ID_NO_LEN == 20
DATE_LEN == 10
SERIAL_LEN == 10

\* -------------------------------------------------------------- utilities
max(a, b) == IF a >= b THEN a ELSE b

Zeros(n) == [i \in 1..n |-> 0]

Take(b, n) == SubSeq(b, 1, IF Len(b) < n THEN Len(b) ELSE n)

RECURSIVE rstrip0(_)
rstrip0(b) ==
    IF b = <<>> THEN <<>>
    ELSE IF b[Len(b)] = 0 THEN rstrip0(SubSeq(b, 1, Len(b) - 1))
    ELSE b

\* one code point to its UTF-8 bytes; lone surrogates are dropped (errors="ignore")
utf8_bytes(cp) ==
    IF cp < 128 THEN <<cp>>
    ELSE IF cp < 2048 THEN <<192 + (cp \div 64), 128 + (cp % 64)>>
    ELSE IF cp >= 55296 /\ cp < 57344 THEN <<>>
    ELSE IF cp < 65536
        THEN <<224 + (cp \div 4096), 128 + ((cp \div 64) % 64), 128 + (cp % 64)>>
    ELSE <<240 + (cp \div 262144), 128 + ((cp \div 4096) % 64),
           128 + ((cp \div 64) % 64), 128 + (cp % 64)>>

RECURSIVE utf8_encode(_)
utf8_encode(s) ==
    IF s = <<>> THEN <<>> ELSE utf8_bytes(Head(s)) \o utf8_encode(Tail(s))

IsCont(x) == x >= 128 /\ x < 192

\* lenient decoding: a byte that starts no well-formed sequence is dropped
RECURSIVE utf8_decode(_)
utf8_decode(b) ==
    IF b = <<>> THEN <<>>
    ELSE LET n == Len(b)
             b0 == b[1]
             cp2 == (b0 - 192) * 64 + (b[2] - 128)
             cp3 == (b0 - 224) * 4096 + (b[2] - 128) * 64 + (b[3] - 128)
             cp4 == (b0 - 240) * 262144 + (b[2] - 128) * 4096
                        + (b[3] - 128) * 64 + (b[4] - 128)
         IN  IF b0 < 128 THEN <<b0>> \o utf8_decode(Tail(b))
             ELSE IF b0 >= 194 /\ b0 < 224 /\ n >= 2 /\ IsCont(b[2])
                 THEN <<cp2>> \o utf8_decode(SubSeq(b, 3, n))
             ELSE IF b0 >= 224 /\ b0 < 240 /\ n >= 3 /\ IsCont(b[2]) /\ IsCont(b[3])
                     /\ cp3 >= 2048 /\ ~(cp3 >= 55296 /\ cp3 < 57344)
                 THEN <<cp3>> \o utf8_decode(SubSeq(b, 4, n))
             ELSE IF b0 >= 240 /\ b0 < 245 /\ n >= 4 /\ IsCont(b[2]) /\ IsCont(b[3])
                     /\ IsCont(b[4]) /\ cp4 >= 65536 /\ cp4 < 1114112
                 THEN <<cp4>> \o utf8_decode(SubSeq(b, 5, n))
             ELSE utf8_decode(Tail(b))

\* faulty variant: the text is cut to size characters, not bytes
fix_bytes_cut_by_chars(s, size) ==
    LET b == utf8_encode(Take(s, size))
    IN  b \o Zeros(size - Len(b))

fix_bytes(s, size) ==
    LET b == Take(utf8_encode(s), size)
    IN  b \o Zeros(size - Len(b))

\* faulty variant: the zero padding is decoded with the text
read_str_padding_kept(b) == utf8_decode(b)

read_str(b) == utf8_decode(rstrip0(b))

\* decimal digits of a natural number, as ASCII
RECURSIVE Digits(_)
Digits(n) == IF n < 10 THEN <<48 + n>> ELSE Digits(n \div 10) \o <<48 + (n % 10)>>

\* f"{n:0{w}d}"
ZeroPad(n, w) ==
    LET d == Digits(n)
    IN  [i \in 1..(w - Len(d)) |-> 48] \o d

\* ------------------------------------------------------------ record codec
Room_pack(r) == [r EXCEPT !.room_type = fix_bytes(r.room_type, ROOM_TYPE_LEN)]
Room_unpack(t) == [t EXCEPT !.room_type = read_str(t.room_type)]

Guest_pack(g) ==
    [g EXCEPT !.full_name = fix_bytes(g.full_name, FULL_NAME_LEN),
              !.phone = fix_bytes(g.phone, PHONE_LEN),
              !.id_no = fix_bytes(g.id_no, ID_NO_LEN)]
Guest_unpack(t) ==
    [t EXCEPT !.full_name = read_str(t.full_name),
              !.phone = read_str(t.phone),
              !.id_no = read_str(t.id_no)]

Stay_pack(s) ==
    [s EXCEPT !.checkin_date = fix_bytes(s.checkin_date, DATE_LEN),
              !.checkout_date = fix_bytes(s.checkout_date, DATE_LEN)]
Stay_unpack(t) ==
    [t EXCEPT !.checkin_date = read_str(t.checkin_date),
              !.checkout_date = read_str(t.checkout_date)]

Keycard_pack(k) == [k EXCEPT !.serial = fix_bytes(k.serial, SERIAL_LEN)]
Keycard_unpack(t) == [t EXCEPT !.serial = read_str(t.serial)]

\* ---- the codec at the level of bytes
\* struct format "<I": four bytes, least significant first
pack_I(n) ==
    <<n % 256, (n \div 256) % 256, (n \div 65536) % 256, (n \div 16777216) % 256>>

unpack_I(b) == b[1] + 256 * b[2] + 65536 * b[3] + 16777216 * b[4]

\* struct format "<Ns": the bytes cut or zero-padded to N
pack_s(b, n) == Take(b, n) \o Zeros(n - Len(Take(b, n)))

\* faulty variant: the block is left at the struct's size
ljust_nothing(b, size) == b

\* bytes.ljust(size, b"\x00")
ljust(b, size) == b \o Zeros(size - Len(b))

ROOM_STRUCT_pack(t) ==
    pack_I(t.room_id) \o pack_I(t.status) \o pack_s(t.room_type, ROOM_TYPE_LEN)
        \o pack_I(t.floor) \o pack_I(t.capacity) \o pack_I(t.max_cards)
        \o pack_I(t.created_at) \o pack_I(t.updated_at)

ROOM_STRUCT_unpack(b) ==
    [room_id |-> unpack_I(SubSeq(b, 1, 4)),
     status |-> unpack_I(SubSeq(b, 5, 8)),
     room_type |-> SubSeq(b, 9, 28),
     floor |-> unpack_I(SubSeq(b, 29, 32)),
     capacity |-> unpack_I(SubSeq(b, 33, 36)),
     max_cards |-> unpack_I(SubSeq(b, 37, 40)),
     created_at |-> unpack_I(SubSeq(b, 41, 44)),
     updated_at |-> unpack_I(SubSeq(b, 45, 48))]

GUEST_STRUCT_pack(t) ==
    pack_I(t.guest_id) \o pack_I(t.status) \o pack_s(t.full_name, FULL_NAME_LEN)
        \o pack_s(t.phone, PHONE_LEN) \o pack_s(t.id_no, ID_NO_LEN)
        \o pack_I(t.created_at) \o pack_I(t.updated_at)

GUEST_STRUCT_unpack(b) ==
    [guest_id |-> unpack_I(SubSeq(b, 1, 4)),
     status |-> unpack_I(SubSeq(b, 5, 8)),
     full_name |-> SubSeq(b, 9, 58),
     phone |-> SubSeq(b, 59, 73),
     id_no |-> SubSeq(b, 74, 93),
     created_at |-> unpack_I(SubSeq(b, 94, 97)),
     updated_at |-> unpack_I(SubSeq(b, 98, 101))]

STAY_STRUCT_pack(t) ==
    pack_I(t.stay_id) \o pack_I(t.status) \o pack_I(t.guest_id) \o pack_I(t.room_id)
        \o pack_s(t.checkin_date, DATE_LEN) \o pack_s(t.checkout_date, DATE_LEN)
        \o pack_I(t.cards_issued) \o pack_I(t.cards_returned) \o pack_I(t.updated_at)

STAY_STRUCT_unpack(b) ==
    [stay_id |-> unpack_I(SubSeq(b, 1, 4)),
     status |-> unpack_I(SubSeq(b, 5, 8)),
     guest_id |-> unpack_I(SubSeq(b, 9, 12)),
     room_id |-> unpack_I(SubSeq(b, 13, 16)),
     checkin_date |-> SubSeq(b, 17, 26),
     checkout_date |-> SubSeq(b, 27, 36),
     cards_issued |-> unpack_I(SubSeq(b, 37, 40)),
     cards_returned |-> unpack_I(SubSeq(b, 41, 44)),
     updated_at |-> unpack_I(SubSeq(b, 45, 48))]

KEYCARD_STRUCT_pack(t) ==
    pack_I(t.keycard_id) \o pack_I(t.status) \o pack_I(t.room_id)
        \o pack_s(t.serial, SERIAL_LEN) \o pack_I(t.created_at) \o pack_I(t.updated_at)

KEYCARD_STRUCT_unpack(b) ==
    [keycard_id |-> unpack_I(SubSeq(b, 1, 4)),
     status |-> unpack_I(SubSeq(b, 5, 8)),
     room_id |-> unpack_I(SubSeq(b, 9, 12)),
     serial |-> SubSeq(b, 13, 22),
     created_at |-> unpack_I(SubSeq(b, 23, 26)),
     updated_at |-> unpack_I(SubSeq(b, 27, 30))]

\* pack() and unpack() of the four record classes, from and to bytes
Room_pack_bytes(r) == ljust(ROOM_STRUCT_pack(Room_pack(r)), ROOM_SIZE)
Room_unpack_bytes(buf) == Room_unpack(ROOM_STRUCT_unpack(Take(buf, ROOM_STRUCT_size)))

Guest_pack_bytes(g) == ljust(GUEST_STRUCT_pack(Guest_pack(g)), GUEST_SIZE)
Guest_unpack_bytes(buf) == Guest_unpack(GUEST_STRUCT_unpack(Take(buf, GUEST_STRUCT_size)))

Stay_pack_bytes(st) == ljust(STAY_STRUCT_pack(Stay_pack(st)), STAY_SIZE)
Stay_unpack_bytes(buf) == Stay_unpack(STAY_STRUCT_unpack(Take(buf, STAY_STRUCT_size)))

Keycard_pack_bytes(k) == ljust(KEYCARD_STRUCT_pack(Keycard_pack(k)), KEYCARD_SIZE)
Keycard_unpack_bytes(buf) ==
    Keycard_unpack(KEYCARD_STRUCT_unpack(Take(buf, KEYCARD_STRUCT_size)))

\* return values
None == [kind |-> "None"]
RetBool(b) == [kind |-> "bool", val |-> b]
RetObj(o) == [kind |-> "obj", val |-> o]

\* ------------------------------------------------------------- FixedStore
\* faulty variant: append writes at index len(store) - 1
append_at_last_slot(store, data) ==
    IF store = <<>> THEN <<data>> ELSE [store EXCEPT ![Len(store)] = data]

\* append: write at index len(store)
append(store, data) == Append(store, data)

\* faulty variant: the write goes to the first slot whatever the index
update_first_slot(store, index, data) == [store EXCEPT ![1] = data]

\* update: overwrite one slot
update(store, index, data) == [store EXCEPT ![index] = data]

\* iter: the decoded records in slot order
iter_rooms(store) == [i \in 1..Len(store) |-> Room_unpack(store[i])]
iter_guests(store) == [i \in 1..Len(store) |-> Guest_unpack(store[i])]
iter_stays(store) == [i \in 1..Len(store) |-> Stay_unpack(store[i])]
iter_keycards(store) == [i \in 1..Len(store) |-> Keycard_unpack(store[i])]

\* ---- the same store at the level of the file's bytes (offsets are 0-based
\* in the code, positions 1-based here)
\* __len__: whole slots in the file
FixedStore_len(f, size) == Len(f) \div size

\* faulty variant: a short read is returned as it is
read_at_short_block(f, index, size) ==
    LET off == index * size
    IN  RetObj(SubSeq(f, off + 1, IF off + size < Len(f) THEN off + size ELSE Len(f)))

\* _read_at: the size bytes at index * size, None on a short read
read_at(f, index, size) ==
    LET off == index * size
        b == SubSeq(f, off + 1, IF off + size < Len(f) THEN off + size ELSE Len(f))
    IN  IF Len(b) = size THEN RetObj(b) ELSE None

\* faulty variant: the file is opened for appending, every write goes to its end
write_at_append_mode(f, index, data, size) == f \o data

\* _write_at: seek to index * size in the "r+b" file and write data over what
\* is there, extending the file (a gap before the offset reads as zeros)
write_at(f, index, data, size) ==
    LET off == index * size
        head == IF Len(f) >= off THEN SubSeq(f, 1, off) ELSE f \o Zeros(off - Len(f))
        rest == SubSeq(f, off + size + 1, Len(f))
    IN  head \o data \o rest

\* iter over the bytes of a keycard file: for i in range(len(self)), skipping
\* a slot _read_at returns None for, yielding <<i, unpack(b)>>
RECURSIVE FixedStore_iter(_, _, _)
FixedStore_iter(f, size, i) ==
    IF i >= FixedStore_len(f, size) THEN <<>>
    ELSE LET b == read_at(f, i, size)
         IN  IF b = None THEN FixedStore_iter(f, size, i + 1)
             ELSE <<<<i, Keycard_unpack_bytes(b.val)>>>> \o FixedStore_iter(f, size, i + 1)

\* find_first over the bytes of a keycard file with the key function
\* lambda k: k.keycard_id == keycard_id
FixedStore_find_first(f, size, keycard_id) ==
    LET hits == SelectSeq(FixedStore_iter(f, size, 0),
                          LAMBDA e : e[2].keycard_id = keycard_id)
    IN  IF hits = <<>> THEN None ELSE RetObj(hits[1])

\* find_first: the least of the slots whose record satisfies keyfn (hits), 0 for None;
\* a keyfn lambda of the code is modelled by the set of slots it accepts
find_first(hits) ==
    IF hits = {} THEN 0 ELSE CHOOSE i \in hits : \A j \in hits : i <= j

\* ----------------------------------------------------------- HotelService
RECURSIVE max_id(_, _)
max_id(recs, attr) ==
    IF recs = <<>> THEN 0
    ELSE max(max_id(SubSeq(recs, 1, Len(recs) - 1), attr), recs[Len(recs)][attr])

\* faulty variant: soft-deleted records (status 0) are skipped by the scan
next_id_live_only(recs, attr) ==
    max_id(SelectSeq(recs, LAMBDA r : r.status # 0), attr) + 1

next_id(recs, attr) == max_id(recs, attr) + 1

\* faulty variant: the setattr loop skips no field
apply_fields_nothing_frozen(rec, fields, frozen) ==
    [k \in DOMAIN rec |-> IF k \in DOMAIN fields THEN fields[k] ELSE rec[k]]

\* setattr loop of update_room / update_guest / update_keycard
apply_fields(rec, fields, frozen) ==
    [k \in DOMAIN rec |->
        IF k \in DOMAIN fields /\ k \notin frozen THEN fields[k] ELSE rec[k]]



\* ------------------------------------------------------------------ inputs
STD == <<83, 84, 68>>
DELUXE == <<68, 69, 76, 85, 88, 69>>
JOHN == <<74, 111, 104, 110>>
PHONE1 == <<48, 56, 49>>
PHONE2 == <<48, 56, 57>>
IDNO1 == <<65, 49>>
DATE_IN == <<50, 48, 50, 52, 45, 48, 49, 45, 49, 53>>
DATE_OUT == <<50, 48, 50, 52, 45, 48, 49, 45, 50, 48>>
SERIAL1 == <<84, 49>>

\* ids passed to the operations: with fewer than two records an id is unknown
RoomIdArgs == 1..2
GuestIdArgs == 1..2
StayIdArgs == 1..2
KeycardIdArgs == 1..2
MaxCardsArgs == {2}
CardCountArgs == {-1, 0, 2, 3}

\* the **fields maps passed to the update operations
RoomFieldArgs ==
    {[status |-> ROOM_ACTIVE_VACANT], [status |-> ROOM_ACTIVE_OCCUPIED], [max_cards |-> 1]}
GuestFieldArgs == {[status |-> GUEST_ACTIVE], [phone |-> PHONE2]}
KeycardFieldArgs == {[status |-> KEYCARD_ACTIVE], [room_id |-> 2]}

\* ids and statuses of the room records of a rooms file found at start-up
StoredIdArgs == {2, 3, 7}
StoredRoomStatusArgs == {ROOM_DELETED, ROOM_ACTIVE_VACANT, ROOM_ACTIVE_OCCUPIED}

stored_room(room_id, status) ==
    Room_pack([room_id |-> room_id,
               status |-> status,
               room_type |-> STD,
               floor |-> 2,
               capacity |-> 2,
               max_cards |-> 2,
               created_at |-> 0,
               updated_at |-> 0])

StoredRoomFiles ==
    UNION {[1..n -> {stored_room(i, st) : i \in StoredIdArgs, st \in StoredRoomStatusArgs}]
            : n \in 0..MaxSlots}

\* **fields maps naming the fields the update operations skip
RoomKeyFieldArgs == {[room_id |-> 2], [room_id |-> 1, created_at |-> 1]}
GuestKeyFieldArgs == {[guest_id |-> 2]}
KeycardKeyFieldArgs == {[keycard_id |-> 2]}

\* a keycard file found at start-up: whole slots, or a truncated last slot
StoredFiles == {[i \in 1..n |-> 65] : n \in 0..MaxFileLen}

\* keycard ids looked up in such a file: the id held by a stored slot, the id
\* held by an appended block, an id no slot holds
StoredKeyArgs == {1094795585, 33686018, 5}

\* packed records handed to append, as slot-sized byte blocks
PackedArgs == {[i \in 1..KEYCARD_SIZE |-> b] : b \in {1, 2}}

\* texts and integers handed to the codec
EMPTY == <<>>
CAFE == <<67, 97, 102, 233>>
EURO_GRIN == <<8364, 128512>>
NUL_TAIL == <<65, 0>>
NUL_MID == <<65, 0, 66>>
SURROGATE == <<65, 55296>>
E_ACUTE_6 == [i \in 1..6 |-> 233]
LONG_51 == [i \in 1..51 |-> 65]

TextArgs ==
    {EMPTY, STD, DATE_IN, CAFE, EURO_GRIN, NUL_TAIL, NUL_MID, SURROGATE,
     E_ACUTE_6, LONG_51}
IntArgs == {0, 1, 258, 2147483647}
SizeArgs == {ROOM_TYPE_LEN, FULL_NAME_LEN, PHONE_LEN, DATE_LEN}

RoomArgs ==
    {[room_id |-> i, status |-> ROOM_ACTIVE_VACANT, room_type |-> x, floor |-> 2,
      capacity |-> 2, max_cards |-> 2, created_at |-> 0, updated_at |-> u]
        : i \in IntArgs, x \in TextArgs, u \in IntArgs}
GuestArgs ==
    {[guest_id |-> i, status |-> GUEST_ACTIVE, full_name |-> x, phone |-> y,
      id_no |-> IDNO1, created_at |-> 0, updated_at |-> 0]
        : i \in IntArgs, x \in TextArgs, y \in TextArgs}
StayArgs ==
    {[stay_id |-> 1, status |-> STAY_OPEN, guest_id |-> 1, room_id |-> 1,
      checkin_date |-> x, checkout_date |-> y, cards_issued |-> i,
      cards_returned |-> 0, updated_at |-> 0]
        : i \in IntArgs, x \in TextArgs, y \in TextArgs}
KeycardArgs ==
    {[keycard_id |-> i, status |-> KEYCARD_ACTIVE, room_id |-> j, serial |-> x,
      created_at |-> 0, updated_at |-> 0]
        : i \in IntArgs, j \in IntArgs, x \in TextArgs}

\* **fields maps of several fields, of skipped fields, of a status outside
\* the declared values, and of a name the record does not have
SUITE == <<83, 85, 73, 84, 69>>
SERIAL2 == <<85, 80, 68, 65, 84, 69, 68, 49, 50, 51>>
RoomWideFieldArgs ==
    {[room_type |-> SUITE, capacity |-> 4],
     [room_id |-> 2, room_type |-> SUITE, floor |-> 3],
     [created_at |-> 1],
     [status |-> 7],
     [color |-> 1]}
GuestWideFieldArgs ==
    {[phone |-> PHONE2], [guest_id |-> 2, phone |-> PHONE2], [status |-> 7]}
KeycardWideFieldArgs ==
    {[serial |-> SERIAL2], [keycard_id |-> 2, room_id |-> 2], [status |-> 7]}

\* one more operation of the run
Counted == nops < MaxOps /\ nops' = nops + 1

\* -------------------------------------------------------------- operations
Init ==
    /\ rooms = <<>>
    /\ guests = <<>>
    /\ stays = <<>>
    /\ keycards = <<>>
    /\ now = 0
    /\ nops = 0
    /\ last = [op |-> "init", args |-> <<>>, ret |-> None]
    /\ file = <<>>

add_room(room_type, floor, capacity, max_cards) ==
    /\ Counted
    /\ UNCHANGED <<now, file>>
    /\ LET t == now
            room == [room_id |-> next_id(iter_rooms(rooms), "room_id"),
                     status |-> ROOM_ACTIVE_VACANT,
                     room_type |-> room_type,
                     floor |-> floor,
                     capacity |-> capacity,
                     max_cards |-> max_cards,
                     created_at |-> t,
                     updated_at |-> t]
        IN  /\ rooms' = append(rooms, Room_pack(room))
            /\ last' = [op |-> "add_room",
                        args |-> [room_type |-> room_type, max_cards |-> max_cards],
                        ret |-> RetObj(room)]
    /\ UNCHANGED <<guests, stays, keycards>>

\* faulty variant: the lookup compares with <= instead of ==
room_id_key_at_most(recs, room_id) == {i \in DOMAIN recs : recs[i].room_id <= room_id}

room_id_key(recs, room_id) == {i \in DOMAIN recs : recs[i].room_id = room_id}

update_room(room_id, fields) ==
    /\ Counted
    /\ UNCHANGED <<now, file>>
    /\ LET t == now
            idx == find_first(room_id_key(iter_rooms(rooms), room_id))
            room == [apply_fields(iter_rooms(rooms)[idx], fields, {"room_id", "created_at"})
                        EXCEPT !.updated_at = t]
        IN  /\ IF idx = 0
               THEN /\ rooms' = rooms
                    /\ last' = [op |-> "update_room",
                                args |-> [room_id |-> room_id, fields |-> fields],
                                ret |-> None]
               ELSE /\ rooms' = update(rooms, idx, Room_pack(room))
                    /\ last' = [op |-> "update_room",
                                args |-> [room_id |-> room_id, fields |-> fields],
                                ret |-> RetObj(room)]
    /\ UNCHANGED <<guests, stays, keycards>>

\* faulty variant: the keycards of the room are deleted with it
delete_room_with_cards(room_id) ==
    /\ Counted
    /\ UNCHANGED <<now, file>>
    /\ LET t == now
            idx == find_first(room_id_key(iter_rooms(rooms), room_id))
            room == [iter_rooms(rooms)[idx] EXCEPT !.status = ROOM_DELETED,
                                                   !.updated_at = t]
        IN  /\ rooms' = IF idx = 0 THEN rooms ELSE update(rooms, idx, Room_pack(room))
            /\ keycards' = [i \in 1..Len(keycards) |->
                              IF idx # 0 /\ keycards[i].room_id = room_id
                              THEN [keycards[i] EXCEPT !.status = KEYCARD_DELETED]
                              ELSE keycards[i]]
            /\ last' = [op |-> "delete_room", args |-> [room_id |-> room_id],
                        ret |-> RetBool(idx # 0)]
    /\ UNCHANGED <<guests, stays>>

delete_room(room_id) ==
    /\ Counted
    /\ UNCHANGED <<now, file>>
    /\ LET t == now
            idx == find_first(room_id_key(iter_rooms(rooms), room_id))
            room == [iter_rooms(rooms)[idx] EXCEPT !.status = ROOM_DELETED,
                                                   !.updated_at = t]
        IN  /\ rooms' = IF idx = 0 THEN rooms ELSE update(rooms, idx, Room_pack(room))
            /\ last' = [op |-> "delete_room", args |-> [room_id |-> room_id],
                        ret |-> RetBool(idx # 0)]
    /\ UNCHANGED <<guests, stays, keycards>>


add_guest(full_name, phone, id_no) ==
    /\ Counted
    /\ UNCHANGED <<now, file>>
    /\ LET t == now
            guest == [guest_id |-> next_id(iter_guests(guests), "guest_id"),
                      status |-> GUEST_ACTIVE,
                      full_name |-> full_name,
                      phone |-> phone,
                      id_no |-> id_no,
                      created_at |-> t,
                      updated_at |-> t]
        IN  /\ guests' = append(guests, Guest_pack(guest))
            /\ last' = [op |-> "add_guest", args |-> [full_name |-> full_name],
                        ret |-> RetObj(guest)]
    /\ UNCHANGED <<rooms, stays, keycards>>

\* faulty variant: the lookup skips soft-deleted guests
guest_id_key_live_only(recs, guest_id) ==
    {i \in DOMAIN recs : recs[i].guest_id = guest_id /\ recs[i].status # GUEST_DELETED}

guest_id_key(recs, guest_id) == {i \in DOMAIN recs : recs[i].guest_id = guest_id}

update_guest(guest_id, fields) ==
    /\ Counted
    /\ UNCHANGED <<now, file>>
    /\ LET t == now
            idx == find_first(guest_id_key(iter_guests(guests), guest_id))
            g2 == [apply_fields(iter_guests(guests)[idx], fields, {"guest_id", "created_at"})
                      EXCEPT !.updated_at = t]
        IN  /\ IF idx = 0
               THEN /\ guests' = guests
                    /\ last' = [op |-> "update_guest",
                                args |-> [guest_id |-> guest_id, fields |-> fields],
                                ret |-> None]
               ELSE /\ guests' = update(guests, idx, Guest_pack(g2))
                    /\ last' = [op |-> "update_guest",
                                args |-> [guest_id |-> guest_id, fields |-> fields],
                                ret |-> RetObj(g2)]
    /\ UNCHANGED <<rooms, stays, keycards>>

delete_guest(guest_id) ==
    /\ Counted
    /\ UNCHANGED <<now, file>>
    /\ LET t == now
            idx == find_first(guest_id_key(iter_guests(guests), guest_id))
            g2 == [iter_guests(guests)[idx] EXCEPT !.status = GUEST_DELETED,
                                                   !.updated_at = t]
        IN  /\ guests' = IF idx = 0 THEN guests ELSE update(guests, idx, Guest_pack(g2))
            /\ last' = [op |-> "delete_guest", args |-> [guest_id |-> guest_id],
                        ret |-> RetBool(idx # 0)]
    /\ UNCHANGED <<rooms, stays, keycards>>

\* ---- keycards: the store-level effect, shared with checkin and checkout
new_keycard(store, room_id, serial, t) ==
    [keycard_id |-> next_id(iter_keycards(store), "keycard_id"),
     status |-> KEYCARD_ACTIVE,
     room_id |-> room_id,
     serial |-> serial,
     created_at |-> t,
     updated_at |-> t]

keycard_id_key(recs, keycard_id) ==
    {i \in DOMAIN recs : recs[i].keycard_id = keycard_id}

\* the keycard store after delete_keycard(keycard_id)
delete_keycard_store(store, keycard_id, t) ==
    LET idx == find_first(keycard_id_key(iter_keycards(store), keycard_id))
        k2 == [iter_keycards(store)[idx] EXCEPT !.status = KEYCARD_DELETED,
                                                !.updated_at = t]
    IN  IF idx = 0 THEN store ELSE update(store, idx, Keycard_pack(k2))

\* faulty variant: Deleted keycards are left out whatever include_deleted says
get_keycards_always_filtered(store, include_deleted) ==
    SelectSeq(iter_keycards(store), LAMBDA k : k.status # KEYCARD_DELETED)

get_keycards(store, include_deleted) ==
    SelectSeq(iter_keycards(store),
              LAMBDA k : include_deleted \/ k.status # KEYCARD_DELETED)

get_keycards_by_room(store, room_id) ==
    SelectSeq(get_keycards(store, FALSE), LAMBDA k : k.room_id = room_id)

add_keycard(room_id, serial) ==
    /\ Counted
    /\ UNCHANGED <<now, file>>
    /\ LET t == now
            keycard == new_keycard(keycards, room_id, serial, t)
        IN  /\ keycards' = append(keycards, Keycard_pack(keycard))
            /\ last' = [op |-> "add_keycard",
                        args |-> [room_id |-> room_id, serial |-> serial],
                        ret |-> RetObj(keycard)]
    /\ UNCHANGED <<rooms, guests, stays>>

update_keycard(keycard_id, fields) ==
    /\ Counted
    /\ UNCHANGED <<now, file>>
    /\ LET t == now
            idx == find_first(keycard_id_key(iter_keycards(keycards), keycard_id))
            k2 == [apply_fields(iter_keycards(keycards)[idx], fields,
                                {"keycard_id", "created_at"})
                      EXCEPT !.updated_at = t]
        IN  /\ IF idx = 0
               THEN /\ keycards' = keycards
                    /\ last' = [op |-> "update_keycard",
                                args |-> [keycard_id |-> keycard_id, fields |-> fields],
                                ret |-> None]
               ELSE /\ keycards' = update(keycards, idx, Keycard_pack(k2))
                    /\ last' = [op |-> "update_keycard",
                                args |-> [keycard_id |-> keycard_id, fields |-> fields],
                                ret |-> RetObj(k2)]
    /\ UNCHANGED <<rooms, guests, stays>>

delete_keycard(keycard_id) ==
    /\ Counted
    /\ UNCHANGED <<now, file>>
    /\ LET t == now IN
        /\ keycards' = delete_keycard_store(keycards, keycard_id, t)
        /\ last' = [op |-> "delete_keycard", args |-> [keycard_id |-> keycard_id],
                    ret |-> RetBool(find_first(
                                keycard_id_key(iter_keycards(keycards), keycard_id)) # 0)]
    /\ UNCHANGED <<rooms, guests, stays>>

\* ---- queries
get_rooms(store, include_deleted) ==
    SelectSeq(iter_rooms(store),
              LAMBDA r : include_deleted \/ r.status # ROOM_DELETED)

get_guests(store, include_deleted) ==
    SelectSeq(iter_guests(store),
              LAMBDA g : include_deleted \/ g.status # GUEST_DELETED)

\* faulty variant: a stay counts as deleted when its status is 0, as for the
\* other kinds
get_stays_zero_is_deleted(store, include_deleted) ==
    SelectSeq(iter_stays(store),
              LAMBDA s : include_deleted \/ s.status # STAY_CLOSED)

get_stays(store, include_deleted) ==
    SelectSeq(iter_stays(store),
              LAMBDA s : include_deleted \/ s.status # STAY_DELETED)

\* ---- stays
\* faulty variant: the room lookup ignores the status
checkin_room_key_any_status(recs, room_id) ==
    {i \in DOMAIN recs : recs[i].room_id = room_id}

checkin_room_key(recs, room_id) ==
    {i \in DOMAIN recs :
        /\ recs[i].room_id = room_id
        /\ recs[i].status \in {ROOM_ACTIVE_VACANT, ROOM_ACTIVE_OCCUPIED}}

\* faulty variant: the guest lookup ignores the status
checkin_guest_key_any_status(recs, guest_id) ==
    {i \in DOMAIN recs : recs[i].guest_id = guest_id}

checkin_guest_key(recs, guest_id) ==
    {i \in DOMAIN recs : recs[i].guest_id = guest_id /\ recs[i].status = GUEST_ACTIVE}

\* faulty variant: an Occupied room is not refused
checkin_refused_occupied_ok(room, cards_issued) ==
    \/ cards_issued < 0
    \/ cards_issued > room.max_cards

\* faulty variant: the card count has no upper bound
checkin_refused_no_upper(room, cards_issued) ==
    \/ room.status = ROOM_ACTIVE_OCCUPIED
    \/ cards_issued < 0

\* the two refusals after the lookups
checkin_refused(room, cards_issued) ==
    \/ room.status = ROOM_ACTIVE_OCCUPIED
    \/ cards_issued < 0
    \/ cards_issued > room.max_cards

new_stay(stay_id, guest_id, room_id, date_str, cards_issued, t) ==
    [stay_id |-> stay_id,
     status |-> STAY_OPEN,
     guest_id |-> guest_id,
     room_id |-> room_id,
     checkin_date |-> date_str,
     checkout_date |-> <<>>,
     cards_issued |-> cards_issued,
     cards_returned |-> 0,
     updated_at |-> t]

\* f"KC{room_id:03d}{guest_id:03d}{now_ts() % 10000:04d}{i+1:02d}"
card_serial(room_id, guest_id, t, i) ==
    <<75, 67>> \o ZeroPad(room_id, 3) \o ZeroPad(guest_id, 3)
        \o ZeroPad(t % 10000, 4) \o ZeroPad(i + 1, 2)

\* for i in range(cards_issued): add_keycard(room_id, serial)
RECURSIVE issue_cards(_, _, _, _, _, _)
issue_cards(store, room_id, guest_id, i, cards_issued, t) ==
    IF i >= cards_issued THEN store
    ELSE issue_cards(
            append(store, Keycard_pack(
                new_keycard(store, room_id, card_serial(room_id, guest_id, t, i), t))),
            room_id, guest_id, i + 1, cards_issued, t)

\* faulty variant: the room status is left as it was
occupy_room_status_kept(room, t) == [room EXCEPT !.updated_at = t]

occupy_room(room, t) == [room EXCEPT !.status = ROOM_ACTIVE_OCCUPIED, !.updated_at = t]

checkin(guest_id, room_id, date_str, cards_issued) ==
    /\ Counted
    /\ UNCHANGED <<now, file>>
    /\ LET t == now
            r_idx == find_first(checkin_room_key(iter_rooms(rooms), room_id))
            g_idx == find_first(checkin_guest_key(iter_guests(guests), guest_id))
            room == iter_rooms(rooms)[r_idx]
            stay == new_stay(next_id(iter_stays(stays), "stay_id"), guest_id, room_id,
                             date_str, cards_issued, t)
            args == [guest_id |-> guest_id, room_id |-> room_id,
                     date_str |-> date_str, cards_issued |-> cards_issued]
        IN  /\ IF r_idx = 0 \/ g_idx = 0 \/ checkin_refused(room, cards_issued)
               THEN /\ UNCHANGED <<rooms, stays, keycards>>
                    /\ last' = [op |-> "checkin", args |-> args, ret |-> None]
               ELSE /\ stays' = append(stays, Stay_pack(stay))
                    /\ keycards' = issue_cards(keycards, room_id, guest_id, 0,
                                               cards_issued, t)
                    /\ rooms' = update(rooms, r_idx, Room_pack(occupy_room(room, t)))
                    /\ last' = [op |-> "checkin", args |-> args, ret |-> RetObj(stay)]
    /\ UNCHANGED guests

\* faulty variant: the stay lookup ignores the status
checkout_stay_key_any_status(recs, stay_id) ==
    {i \in DOMAIN recs : recs[i].stay_id = stay_id}

\* faulty variant: the stay lookup refuses Closed stays only
checkout_stay_key_not_closed(recs, stay_id) ==
    {i \in DOMAIN recs : recs[i].stay_id = stay_id /\ recs[i].status # STAY_CLOSED}

checkout_stay_key(recs, stay_id) ==
    {i \in DOMAIN recs : recs[i].stay_id = stay_id /\ recs[i].status = STAY_OPEN}

\* faulty variant: the stay is closed with the Deleted status
close_stay_as_deleted(st, date_str, t) ==
    [st EXCEPT !.status = STAY_DELETED,
               !.checkout_date = date_str,
               !.cards_returned = max(st.cards_returned, st.cards_issued),
               !.updated_at = t]

\* faulty variant: the returned-card count is left as it was
close_stay_cards_kept(st, date_str, t) ==
    [st EXCEPT !.status = STAY_CLOSED,
               !.checkout_date = date_str,
               !.updated_at = t]

close_stay(st, date_str, t) ==
    [st EXCEPT !.status = STAY_CLOSED,
               !.checkout_date = date_str,
               !.cards_returned = max(st.cards_returned, st.cards_issued),
               !.updated_at = t]

\* faulty variant: only the first keycard of the room is returned
return_cards_first_only(store, room_keycards, t) ==
    IF room_keycards = <<>> THEN store
    ELSE delete_keycard_store(store, Head(room_keycards).keycard_id, t)

\* for keycard in room_keycards: if keycard.status == KEYCARD_ACTIVE: delete_keycard(...)
RECURSIVE return_cards(_, _, _)
return_cards(store, room_keycards, t) ==
    IF room_keycards = <<>> THEN store
    ELSE return_cards(
            IF Head(room_keycards).status = KEYCARD_ACTIVE
            THEN delete_keycard_store(store, Head(room_keycards).keycard_id, t)
            ELSE store,
            Tail(room_keycards), t)

\* faulty variant: a Deleted room is set back to Vacant too
free_room_even_deleted(store, room_id, t) ==
    LET r_idx == find_first(room_id_key(iter_rooms(store), room_id))
        room == iter_rooms(store)[r_idx]
    IN  IF r_idx # 0
        THEN update(store, r_idx,
                    Room_pack([room EXCEPT !.status = ROOM_ACTIVE_VACANT,
                                           !.updated_at = t]))
        ELSE store

\* faulty variant: the room is left as it is
free_room_never(store, room_id, t) == store

\* the room store after the "free room" block of checkout
free_room(store, room_id, t) ==
    LET r_idx == find_first(room_id_key(iter_rooms(store), room_id))
        room == iter_rooms(store)[r_idx]
    IN  IF r_idx # 0 /\ room.status # ROOM_DELETED
        THEN update(store, r_idx,
                    Room_pack([room EXCEPT !.status = ROOM_ACTIVE_VACANT,
                                           !.updated_at = t]))
        ELSE store

checkout(stay_id, date_str) ==
    /\ Counted
    /\ UNCHANGED <<now, file>>
    /\ LET t == now
            idx == find_first(checkout_stay_key(iter_stays(stays), stay_id))
            st == close_stay(iter_stays(stays)[idx], date_str, t)
            args == [stay_id |-> stay_id, date_str |-> date_str]
        IN  /\ IF idx = 0
               THEN /\ UNCHANGED <<rooms, stays, keycards>>
                    /\ last' = [op |-> "checkout", args |-> args, ret |-> RetBool(FALSE)]
               ELSE /\ stays' = update(stays, idx, Stay_pack(st))
                    /\ keycards' = return_cards(keycards,
                                        get_keycards_by_room(keycards, st.room_id), t)
                    /\ rooms' = free_room(rooms, st.room_id, t)
                    /\ last' = [op |-> "checkout", args |-> args, ret |-> RetBool(TRUE)]
    /\ UNCHANGED guests

\* faulty variant: the lookup skips soft-deleted stays
stay_id_key_live_only(recs, stay_id) ==
    {i \in DOMAIN recs : recs[i].stay_id = stay_id /\ recs[i].status # STAY_DELETED}

stay_id_key(recs, stay_id) == {i \in DOMAIN recs : recs[i].stay_id = stay_id}

\* faulty variant: deleting a stay also frees its room, as checkout does
delete_stay_frees_room(stay_id) ==
    /\ Counted
    /\ UNCHANGED <<now, file>>
    /\ LET t == now
            idx == find_first(stay_id_key(iter_stays(stays), stay_id))
            st == [iter_stays(stays)[idx] EXCEPT !.status = STAY_DELETED,
                                                 !.updated_at = t]
        IN  /\ stays' = IF idx = 0 THEN stays ELSE update(stays, idx, Stay_pack(st))
            /\ rooms' = IF idx = 0 THEN rooms ELSE free_room(rooms, st.room_id, t)
            /\ last' = [op |-> "delete_stay", args |-> [stay_id |-> stay_id],
                        ret |-> RetBool(idx # 0)]
    /\ UNCHANGED <<guests, keycards>>

delete_stay(stay_id) ==
    /\ Counted
    /\ UNCHANGED <<now, file>>
    /\ LET t == now
            idx == find_first(stay_id_key(iter_stays(stays), stay_id))
            st == [iter_stays(stays)[idx] EXCEPT !.status = STAY_DELETED,
                                                 !.updated_at = t]
        IN  /\ stays' = IF idx = 0 THEN stays ELSE update(stays, idx, Stay_pack(st))
            /\ last' = [op |-> "delete_stay", args |-> [stay_id |-> stay_id],
                        ret |-> RetBool(idx # 0)]
    /\ UNCHANGED <<rooms, guests, keycards>>

\* the wall clock read by now_ts() advances between operations
tick ==
    /\ Counted
    /\ now < MaxTime
    /\ now' = now + 1
    /\ last' = [op |-> "tick", args |-> <<>>, ret |-> None]
    /\ UNCHANGED <<stores, file>>

\* ------------------------------------------------------------ specification
Next ==
    \/ \E m \in MaxCardsArgs : add_room(STD, 2, 2, m)
    \/ \E r \in RoomIdArgs, f \in RoomFieldArgs : update_room(r, f)
    \/ \E r \in RoomIdArgs : delete_room(r)
    \/ add_guest(JOHN, PHONE1, IDNO1)
    \/ \E g \in GuestIdArgs, f \in GuestFieldArgs : update_guest(g, f)
    \/ \E g \in GuestIdArgs : delete_guest(g)
    \/ \E g \in GuestIdArgs, r \in RoomIdArgs, n \in CardCountArgs :
            checkin(g, r, DATE_IN, n)
    \/ \E s \in StayIdArgs : checkout(s, DATE_OUT)
    \/ \E s \in StayIdArgs : delete_stay(s)
    \/ \E r \in RoomIdArgs : add_keycard(r, SERIAL1)
    \/ \E k \in KeycardIdArgs, f \in KeycardFieldArgs : update_keycard(k, f)
    \/ \E k \in KeycardIdArgs : delete_keycard(k)

\* every operation of a run within one second of the clock: no operation
\* reads a stored timestamp, so the clock decides no outcome but the stamps
Spec == Init /\ [][Next]_vars

\* the same runs with the clock advancing between operations
NextClock == Next \/ tick

SpecClock == Init /\ [][NextClock]_vars


\* the same runs with update calls that name the id and created_at fields
NextKeys ==
    \/ Next
    \/ \E r \in RoomIdArgs, f \in RoomKeyFieldArgs : update_room(r, f)
    \/ \E g \in GuestIdArgs, f \in GuestKeyFieldArgs : update_guest(g, f)
    \/ \E k \in KeycardIdArgs, f \in KeycardKeyFieldArgs : update_keycard(k, f)

SpecKeys == Init /\ [][NextKeys]_vars

\* one update or delete call, at any second of the clock, on stores that hold
\* up to two rooms, one guest, one stay and two keycards in any of their
\* statuses
stored_guest(guest_id, status) ==
    Guest_pack([guest_id |-> guest_id,
                status |-> status,
                full_name |-> JOHN,
                phone |-> PHONE1,
                id_no |-> IDNO1,
                created_at |-> 0,
                updated_at |-> 0])

stored_keycard(keycard_id, status) ==
    Keycard_pack([keycard_id |-> keycard_id,
                  status |-> status,
                  room_id |-> 1,
                  serial |-> SERIAL1,
                  created_at |-> 0,
                  updated_at |-> 0])

stored_stay(stay_id, status) ==
    Stay_pack([new_stay(stay_id, 1, 1, DATE_IN, 0, 0) EXCEPT !.status = status])

InitUpdate ==
    /\ \E n \in {0} \cup RoomIdArgs :
         \E st \in [1..n -> StoredRoomStatusArgs] :
            rooms = [i \in 1..n |-> stored_room(i, st[i])]
    /\ \E n \in 0..1 :
         \E st \in [1..n -> {GUEST_DELETED, GUEST_ACTIVE}] :
            guests = [i \in 1..n |-> stored_guest(i, st[i])]
    /\ \E n \in {0} \cup KeycardIdArgs :
         \E st \in [1..n -> {KEYCARD_DELETED, KEYCARD_ACTIVE}] :
            keycards = [i \in 1..n |-> stored_keycard(i, st[i])]
    /\ \E n \in 0..1 :
         \E st \in [1..n -> {STAY_CLOSED, STAY_OPEN, STAY_DELETED}] :
            stays = [i \in 1..n |-> stored_stay(i, st[i])]
    /\ now = 0
    /\ nops = 0
    /\ last = [op |-> "init", args |-> <<>>, ret |-> None]
    /\ file = <<>>

NoCallYet == last.op \in {"init", "tick"}

NextUpdate ==
    \/ NoCallYet /\ \E r \in RoomIdArgs, f \in RoomWideFieldArgs : update_room(r, f)
    \/ NoCallYet /\ \E g \in GuestIdArgs, f \in GuestWideFieldArgs : update_guest(g, f)
    \/ NoCallYet /\ \E k \in KeycardIdArgs, f \in KeycardWideFieldArgs : update_keycard(k, f)
    \/ NoCallYet /\ \E r \in RoomIdArgs : delete_room(r)
    \/ NoCallYet /\ \E g \in GuestIdArgs : delete_guest(g)
    \/ NoCallYet /\ \E s \in StayIdArgs : delete_stay(s)
    \/ NoCallYet /\ \E k \in KeycardIdArgs : delete_keycard(k)
    \/ NoCallYet /\ tick

SpecUpdate == InitUpdate /\ [][NextUpdate]_vars

\* ---- checkin write by write: each append and update of checkin is a write
\* to its file of its own, the clock may advance between two of them, and the
\* process may stop between two of them
\* faulty variant: the room is written before the stay and the keycards
checkin_writes_room_first(cards_issued) ==
    <<"room", "stay">> \o [i \in 1..cards_issued |-> "keycard"]

\* the writes of a checkin that passed validation, in program order
checkin_writes(cards_issued) ==
    <<"stay">> \o [i \in 1..cards_issued |-> "keycard"] \o <<"room">>

\* a checkin between validation and return: pc is the position of its next
\* write, i the loop variable, r_idx and room the local variables, stay the
\* Stay object once built
Pending(pc, i, r_idx, room, stay) ==
    [kind |-> "pending", pc |-> pc, i |-> i, r_idx |-> r_idx, room |-> room,
     stay |-> stay]

InFlight == last.ret.kind = "pending"

\* the write at position pc is of this kind
NextWriteIs(w) ==
    /\ InFlight
    /\ last.ret.pc <= Len(checkin_writes(last.args.cards_issued))
    /\ checkin_writes(last.args.cards_issued)[last.ret.pc] = w

\* after a write: the next write is pending, or checkin returns the stay
checkin_after_write(p) ==
    IF p.pc > Len(checkin_writes(last.args.cards_issued))
    THEN [op |-> "checkin", args |-> last.args, ret |-> RetObj(p.stay)]
    ELSE [op |-> "checkin_write", args |-> last.args, ret |-> p]

\* lines 403-411: the lookups and the refusals
checkin_validate(guest_id, room_id, date_str, cards_issued) ==
    /\ ~InFlight
    /\ Counted
    /\ LET r_idx == find_first(checkin_room_key(iter_rooms(rooms), room_id))
           g_idx == find_first(checkin_guest_key(iter_guests(guests), guest_id))
           room == iter_rooms(rooms)[r_idx]
           args == [guest_id |-> guest_id, room_id |-> room_id,
                    date_str |-> date_str, cards_issued |-> cards_issued]
       IN  last' = IF r_idx = 0 \/ g_idx = 0 \/ checkin_refused(room, cards_issued)
                   THEN [op |-> "checkin", args |-> args, ret |-> None]
                   ELSE [op |-> "checkin_validated", args |-> args,
                         ret |-> Pending(1, 0, r_idx, room, None)]
    /\ UNCHANGED <<stores, now, file>>

\* lines 413-424: the stay is built and appended
checkin_stay_append ==
    /\ NextWriteIs("stay")
    /\ LET p == last.ret
           a == last.args
           stay == new_stay(next_id(iter_stays(stays), "stay_id"), a.guest_id,
                            a.room_id, a.date_str, a.cards_issued, now)
       IN  /\ stays' = append(stays, Stay_pack(stay))
           /\ last' = checkin_after_write([p EXCEPT !.pc = p.pc + 1, !.stay = stay])
    /\ UNCHANGED <<rooms, guests, keycards, now, nops, file>>

\* lines 427-429: one turn of the loop
checkin_add_keycard ==
    /\ NextWriteIs("keycard")
    /\ LET p == last.ret
           a == last.args
           serial == card_serial(a.room_id, a.guest_id, now, p.i)
       IN  /\ keycards' = append(keycards,
                    Keycard_pack(new_keycard(keycards, a.room_id, serial, now)))
           /\ last' = checkin_after_write([p EXCEPT !.pc = p.pc + 1, !.i = p.i + 1])
    /\ UNCHANGED <<rooms, guests, stays, now, nops, file>>

\* lines 431-433: the room is rewritten as Occupied
checkin_room_update ==
    /\ NextWriteIs("room")
    /\ LET p == last.ret
       IN  /\ rooms' = update(rooms, p.r_idx, Room_pack(occupy_room(p.room, now)))
           /\ last' = checkin_after_write([p EXCEPT !.pc = p.pc + 1])
    /\ UNCHANGED <<guests, stays, keycards, now, nops, file>>

\* the process stops inside checkin; the files keep what was written and a
\* later process opens them
stop ==
    /\ InFlight
    /\ Counted
    /\ last' = [op |-> "stop", args |-> last.args,
                ret |-> [last.ret EXCEPT !.kind = "stopped"]]
    /\ UNCHANGED <<stores, now, file>>

NextCrash ==
    \/ ~InFlight /\ \E m \in MaxCardsArgs : add_room(STD, 2, 2, m)
    \/ ~InFlight /\ add_guest(JOHN, PHONE1, IDNO1)
    \/ \E g \in GuestIdArgs, r \in RoomIdArgs, n \in CardCountArgs :
            checkin_validate(g, r, DATE_IN, n)
    \/ checkin_stay_append
    \/ checkin_add_keycard
    \/ checkin_room_update
    \/ stop
    \/ tick

SpecCrash == Init /\ [][NextCrash]_vars

\* ---- one add or update call handing any text to the service, on stores that
\* hold nothing or one record of each kind
InitText ==
    /\ \E n \in 0..1 : rooms = [i \in 1..n |-> stored_room(i, ROOM_ACTIVE_VACANT)]
    /\ \E n \in 0..1 : guests = [i \in 1..n |-> stored_guest(i, GUEST_ACTIVE)]
    /\ \E n \in 0..1 : keycards = [i \in 1..n |-> stored_keycard(i, KEYCARD_ACTIVE)]
    /\ stays = <<>>
    /\ now \in 0..MaxTime
    /\ nops = 0
    /\ last = [op |-> "init", args |-> <<>>, ret |-> None]
    /\ file = <<>>

NextText ==
    \/ NoCallYet /\ \E x \in TextArgs : add_room(x, 2, 2, 2)
    \/ NoCallYet /\ \E x \in TextArgs : add_guest(x, PHONE1, IDNO1)
    \/ NoCallYet /\ \E x \in TextArgs : add_keycard(1, x)
    \/ NoCallYet /\ \E x \in TextArgs : update_room(1, [room_type |-> x])
    \/ NoCallYet /\ \E x \in TextArgs : update_guest(1, [full_name |-> x])
    \/ NoCallYet /\ \E x \in TextArgs : update_keycard(1, [serial |-> x])

SpecText == InitText /\ [][NextText]_vars

\* _next_id over a rooms file that exists at start-up: each add_room reads
\* the ids the file holds
InitStored ==
    /\ rooms \in StoredRoomFiles
    /\ guests = <<>>
    /\ stays = <<>>
    /\ keycards = <<>>
    /\ now = 0
    /\ nops = 0
    /\ last = [op |-> "init", args |-> <<>>, ret |-> None]
    /\ file = <<>>

NextStored == \E m \in MaxCardsArgs : add_room(STD, 2, 2, m)

SpecStored == InitStored /\ [][NextStored]_vars

\* FixedStore.append on the bytes of a keycard file
FixedStore_append(data) ==
    /\ Counted
    /\ LET idx == FixedStore_len(file, KEYCARD_SIZE)
       IN  /\ file' = write_at(file, idx, data, KEYCARD_SIZE)
           /\ last' = [op |-> "append",
                       args |-> [data |-> data, size_before |-> Len(file)],
                       ret |-> RetObj(idx)]
    /\ UNCHANGED <<stores, now>>

InitFile ==
    /\ rooms = <<>>
    /\ guests = <<>>
    /\ stays = <<>>
    /\ keycards = <<>>
    /\ now = 0
    /\ nops = 0
    /\ last = [op |-> "init", args |-> <<>>, ret |-> None]
    /\ file \in StoredFiles

\* a scan of the keycard file: list(store.iter())
FixedStore_scan ==
    /\ Counted
    /\ last' = [op |-> "iter", args |-> <<>>,
                ret |-> RetObj(FixedStore_iter(file, KEYCARD_SIZE, 0))]
    /\ UNCHANGED <<stores, now, file>>

\* a lookup in the keycard file: store.find_first(lambda k: k.keycard_id == id)
FixedStore_lookup(keycard_id) ==
    /\ Counted
    /\ last' = [op |-> "find_first", args |-> [keycard_id |-> keycard_id],
                ret |-> FixedStore_find_first(file, KEYCARD_SIZE, keycard_id)]
    /\ UNCHANGED <<stores, now, file>>

NextFile ==
    \/ \E data \in PackedArgs : FixedStore_append(data)
    \/ FixedStore_scan
    \/ \E k \in StoredKeyArgs : FixedStore_lookup(k)

SpecFile == InitFile /\ [][NextFile]_vars

\* ---- the codec applied to one value: file holds the bytes pack returned,
\* last.ret what unpack made of them; one call in a run
FirstCall == last.op = "init"

Room_roundtrip(v) ==
    /\ FirstCall
    /\ file' = Room_pack_bytes(v)
    /\ last' = [op |-> "Room.pack", args |-> [v |-> v],
                ret |-> RetObj(Room_unpack_bytes(file'))]
    /\ UNCHANGED <<stores, now, nops>>

Guest_roundtrip(v) ==
    /\ FirstCall
    /\ file' = Guest_pack_bytes(v)
    /\ last' = [op |-> "Guest.pack", args |-> [v |-> v],
                ret |-> RetObj(Guest_unpack_bytes(file'))]
    /\ UNCHANGED <<stores, now, nops>>

Stay_roundtrip(v) ==
    /\ FirstCall
    /\ file' = Stay_pack_bytes(v)
    /\ last' = [op |-> "Stay.pack", args |-> [v |-> v],
                ret |-> RetObj(Stay_unpack_bytes(file'))]
    /\ UNCHANGED <<stores, now, nops>>

Keycard_roundtrip(v) ==
    /\ FirstCall
    /\ file' = Keycard_pack_bytes(v)
    /\ last' = [op |-> "Keycard.pack", args |-> [v |-> v],
                ret |-> RetObj(Keycard_unpack_bytes(file'))]
    /\ UNCHANGED <<stores, now, nops>>

fix_bytes_call(s, size) ==
    /\ FirstCall
    /\ file' = fix_bytes(s, size)
    /\ last' = [op |-> "fix_bytes", args |-> [s |-> s, size |-> size],
                ret |-> RetObj(read_str(file'))]
    /\ UNCHANGED <<stores, now, nops>>

NextCodec ==
    \/ \E v \in RoomArgs : Room_roundtrip(v)
    \/ \E v \in GuestArgs : Guest_roundtrip(v)
    \/ \E v \in StayArgs : Stay_roundtrip(v)
    \/ \E v \in KeycardArgs : Keycard_roundtrip(v)
    \/ \E x \in TextArgs, size \in SizeArgs : fix_bytes_call(x, size)

SpecCodec == Init /\ [][NextCodec]_vars

\* ------------------------------------------------------ views for the claims
Rooms == iter_rooms(rooms)
Guests == iter_guests(guests)
Stays == iter_stays(stays)
Keycards == iter_keycards(keycards)

\* the step just taken is the operation named opname
StepIs(opname) == nops' = nops + 1 /\ last'.op = opname

IsNone(ret) == ret.kind = "None"
IsObj(ret) == ret.kind = "obj"
IsBool(ret, b) == ret.kind = "bool" /\ ret.val = b

\* slot of the record carrying an id (ids are looked up first-match), 0 if none
RoomAt(room_id) == find_first(room_id_key(Rooms, room_id))
GuestAt(guest_id) == find_first(guest_id_key(Guests, guest_id))
StayAt(stay_id) == find_first(stay_id_key(Stays, stay_id))

\* slot of the Open stay carrying an id, 0 if none
OpenStayAt(stay_id) ==
    find_first({k \in DOMAIN Stays :
        Stays[k].stay_id = stay_id /\ Stays[k].status = STAY_OPEN})

OpenStaysOf(room_id) ==
    {i \in 1..Len(Stays) : Stays[i].room_id = room_id /\ Stays[i].status = STAY_OPEN}

ActiveCardsOf(cards, room_id) ==
    {i \in 1..Len(cards) : cards[i].room_id = room_id /\ cards[i].status = KEYCARD_ACTIVE}

\* C1: in every reachable state each room_id has at most one stay in status Open
C1_AtMostOneOpenStayPerRoom ==
    \A r \in RoomIdArgs : Cardinality(OpenStaysOf(r)) <= 1

\* C2: a room becomes Occupied only in a successful checkin step and goes from
\* Occupied back to Vacant only in a successful checkout step
C2_OccupancyOnlyViaCheckinCheckout ==
    [][\A i \in 1..Len(rooms) :
          /\ (rooms[i].status # ROOM_ACTIVE_OCCUPIED
                /\ rooms'[i].status = ROOM_ACTIVE_OCCUPIED)
             => (StepIs("checkin") /\ IsObj(last'.ret))
          /\ (rooms[i].status = ROOM_ACTIVE_OCCUPIED
                /\ rooms'[i].status = ROOM_ACTIVE_VACANT)
             => (StepIs("checkout") /\ IsBool(last'.ret, TRUE))]_vars


\* C3: after a successful checkin, a second checkin on the same room (any guest,
\* any card count) returns None and leaves the stay, room and keycard stores
\* as the first checkin left them
C3_SecondCheckinRefused ==
    [][(/\ last.op = "checkin"
        /\ IsObj(last.ret)
        /\ StepIs("checkin")
        /\ last'.args.room_id = last.args.room_id)
       => (IsNone(last'.ret) /\ UNCHANGED <<rooms, stays, keycards>>)]_vars

\* a second checkin by another Active guest, with a card count within bounds,
\* was refused on a room that is Occupied by one Open stay
C3_Witness ==
    /\ last.op = "checkin"
    /\ IsNone(last.ret)
    /\ LET r == RoomAt(last.args.room_id)
           g == GuestAt(last.args.guest_id)
       IN  /\ r # 0
           /\ g # 0
           /\ Rooms[r].status = ROOM_ACTIVE_OCCUPIED
           /\ Guests[g].status = GUEST_ACTIVE
           /\ last.args.cards_issued \in 0..Rooms[r].max_cards
           /\ \E i \in OpenStaysOf(last.args.room_id) :
                Stays[i].guest_id # last.args.guest_id

\* C4: checkin with a card count above the room's max_cards, or negative,
\* returns None and appends no stay, no keycard and leaves the rooms unchanged
C4_CardBoundRefused ==
    [][(/\ StepIs("checkin")
        /\ LET n == last'.args.cards_issued
               r == RoomAt(last'.args.room_id)
           IN  n < 0 \/ (r # 0 /\ n > Rooms[r].max_cards))
       => (IsNone(last'.ret) /\ UNCHANGED <<rooms, stays, keycards>>)]_vars

\* a checkin of an Active guest into a Vacant room was refused for its card count
C4_Witness ==
    /\ last.op = "checkin"
    /\ IsNone(last.ret)
    /\ LET r == RoomAt(last.args.room_id)
           g == GuestAt(last.args.guest_id)
       IN  /\ r # 0
           /\ g # 0
           /\ Rooms[r].status = ROOM_ACTIVE_VACANT
           /\ Guests[g].status = GUEST_ACTIVE
           /\ last.args.cards_issued > Rooms[r].max_cards

\* C5: a successful checkin(guest, room, date, n) appends exactly one stay with
\* a fresh id, status Open, empty checkout_date, cards_issued = n and
\* cards_returned = 0; appends exactly n keycards, each Active with the room's
\* id; sets the room's status to Occupied; and leaves the guests untouched
C5_CheckinEffects ==
    [][(StepIs("checkin") /\ IsObj(last'.ret))
       => LET a == last'.args
              n == a.cards_issued
              st == Stay_unpack(stays'[Len(stays')])
              r == RoomAt(a.room_id)
          IN  /\ Len(stays') = Len(stays) + 1
              /\ SubSeq(stays', 1, Len(stays)) = stays
              /\ \A i \in 1..Len(stays) : Stays[i].stay_id < st.stay_id
              /\ st = last'.ret.val
              /\ st.status = STAY_OPEN
              /\ st.guest_id = a.guest_id
              /\ st.room_id = a.room_id
              /\ st.checkout_date = <<>>
              /\ st.cards_issued = n
              /\ st.cards_returned = 0
              /\ Len(keycards') = Len(keycards) + n
              /\ SubSeq(keycards', 1, Len(keycards)) = keycards
              /\ \A i \in (Len(keycards) + 1)..Len(keycards') :
                    /\ keycards'[i].status = KEYCARD_ACTIVE
                    /\ keycards'[i].room_id = a.room_id
              /\ r # 0
              /\ Len(rooms') = Len(rooms)
              /\ rooms'[r].status = ROOM_ACTIVE_OCCUPIED
              /\ \A i \in 1..Len(rooms) : i # r => rooms'[i] = rooms[i]
              /\ guests' = guests]_vars

\* a checkin issuing two cards succeeded in a store that already held a keycard
C5_Witness ==
    /\ last.op = "checkin"
    /\ IsObj(last.ret)
    /\ last.args.cards_issued = 2
    /\ Len(keycards) > 2
    /\ Rooms[RoomAt(last.args.room_id)].status = ROOM_ACTIVE_OCCUPIED

\* C6: a successful checkout(stayId, date) closes that stay with
\* checkout_date = date and cards_returned = max(cards_returned, cards_issued),
\* leaves no Active keycard with the stay's room_id, and sets the stay's room to
\* Vacant when the room is not Deleted
C6_CheckoutCascade ==
    [][(StepIs("checkout") /\ IsBool(last'.ret, TRUE))
       => LET idx == OpenStayAt(last'.args.stay_id)
              old == Stays[idx]
              new == Stay_unpack(stays'[idx])
              r == RoomAt(old.room_id)
          IN  /\ idx # 0
              /\ new.status = STAY_CLOSED
              /\ new.checkout_date = last'.args.date_str
              /\ new.cards_returned = max(old.cards_returned, old.cards_issued)
              /\ ActiveCardsOf(keycards', old.room_id) = {}
              /\ (r # 0 /\ Rooms[r].status # ROOM_DELETED)
                    => rooms'[r].status = ROOM_ACTIVE_VACANT]_vars

\* a stay with two issued cards was checked out: it is Closed, both keycards of
\* its room are Deleted and the room is Vacant
C6_Witness ==
    /\ last.op = "checkout"
    /\ IsBool(last.ret, TRUE)
    /\ LET s == StayAt(last.args.stay_id)
       IN  /\ s # 0
           /\ Stays[s].status = STAY_CLOSED
           /\ Stays[s].cards_issued = 2
           /\ Stays[s].cards_returned = 2
           /\ Cardinality({i \in 1..Len(Keycards) :
                    /\ Keycards[i].room_id = Stays[s].room_id
                    /\ Keycards[i].status = KEYCARD_DELETED}) = 2
           /\ Rooms[RoomAt(Stays[s].room_id)].status = ROOM_ACTIVE_VACANT

\* C7: checkout returns False and changes no stay, keycard or room record when
\* no stay with that id is Open (unknown id, Deleted stay, already Closed stay)
C7_CheckoutRefused ==
    [][(/\ StepIs("checkout")
        /\ OpenStayAt(last'.args.stay_id) = 0)
       => (IsBool(last'.ret, FALSE) /\ UNCHANGED <<rooms, stays, keycards>>)]_vars

\* a second checkout of an already Closed stay was refused
C7_Witness ==
    /\ last.op = "checkout"
    /\ IsBool(last.ret, FALSE)
    /\ StayAt(last.args.stay_id) # 0
    /\ Stays[StayAt(last.args.stay_id)].status = STAY_CLOSED

\* C8: checkin on a room whose status is Deleted returns None for every guest
\* and card count, appends no stay or keycard and leaves the room unchanged
C8_DeletedRoomNoCheckin ==
    [][(/\ StepIs("checkin")
        /\ LET r == RoomAt(last'.args.room_id)
           IN  r # 0 /\ Rooms[r].status = ROOM_DELETED)
       => (IsNone(last'.ret) /\ UNCHANGED <<rooms, stays, keycards>>)]_vars

\* a checkin of an Active guest with a card count within bounds was refused on
\* a Deleted room
C8_Witness ==
    /\ last.op = "checkin"
    /\ IsNone(last.ret)
    /\ LET r == RoomAt(last.args.room_id)
           g == GuestAt(last.args.guest_id)
       IN  /\ r # 0
           /\ g # 0
           /\ Rooms[r].status = ROOM_DELETED
           /\ Guests[g].status = GUEST_ACTIVE
           /\ last.args.cards_issued \in 0..Rooms[r].max_cards

\* C9: checkin returns None and changes no stay, keycard or room record when
\* the guest id is unknown or the guest is not Active
C9_InvalidGuestRefused ==
    [][(/\ StepIs("checkin")
        /\ LET g == GuestAt(last'.args.guest_id)
           IN  g = 0 \/ Guests[g].status # GUEST_ACTIVE)
       => (IsNone(last'.ret) /\ UNCHANGED <<rooms, stays, keycards>>)]_vars

\* a checkin of a Deleted guest into a Vacant room, with a card count within
\* bounds, was refused
C9_Witness ==
    /\ last.op = "checkin"
    /\ IsNone(last.ret)
    /\ LET r == RoomAt(last.args.room_id)
           g == GuestAt(last.args.guest_id)
       IN  /\ r # 0
           /\ g # 0
           /\ Rooms[r].status = ROOM_ACTIVE_VACANT
           /\ Guests[g].status = GUEST_DELETED
           /\ last.args.cards_issued \in 0..Rooms[r].max_cards

\* C10: once a room is Deleted no checkin, checkout, delete_room or delete_stay
\* changes its status; checkout of an Open stay whose room is Deleted closes
\* the stay and leaves the room Deleted
C10_DeletedRoomTerminal ==
    [][/\ \A i \in 1..Len(rooms) :
            (/\ rooms[i].status = ROOM_DELETED
             /\ nops' = nops + 1
             /\ last'.op \in {"checkin", "checkout", "delete_room", "delete_stay"})
            => (Len(rooms') = Len(rooms) /\ rooms'[i].status = ROOM_DELETED)
       /\ \A i \in 1..Len(stays) :
            (/\ StepIs("checkout")
             /\ i = OpenStayAt(last'.args.stay_id)
             /\ RoomAt(Stays[i].room_id) # 0
             /\ Rooms[RoomAt(Stays[i].room_id)].status = ROOM_DELETED)
            => (/\ IsBool(last'.ret, TRUE)
                /\ stays'[i].status = STAY_CLOSED
                /\ rooms'[RoomAt(Stays[i].room_id)].status = ROOM_DELETED)]_vars

\* an Open stay whose room had been Deleted was checked out: the stay is Closed
\* and the room still Deleted
C10_Witness ==
    /\ last.op = "checkout"
    /\ IsBool(last.ret, TRUE)
    /\ LET s == StayAt(last.args.stay_id)
       IN  /\ s # 0
           /\ Stays[s].status = STAY_CLOSED
           /\ RoomAt(Stays[s].room_id) # 0
           /\ Rooms[RoomAt(Stays[s].room_id)].status = ROOM_DELETED

\* C11 as stated: once a stay's status is Closed or Deleted, no operation
\* changes that stay's status
C11_ClosedAndDeletedTerminal ==
    [][\A i \in 1..Len(stays) :
          stays[i].status \in {STAY_CLOSED, STAY_DELETED}
          => stays'[i].status = stays[i].status]_vars

\* C11 as amended: a Deleted stay keeps its status under every operation, and
\* a Closed stay keeps it under every operation but delete_stay, which moves
\* it to Deleted
C11_DeletedTerminalClosedUntilDeleted ==
    [][\A i \in 1..Len(stays) :
          /\ stays[i].status = STAY_DELETED => stays'[i].status = STAY_DELETED
          /\ stays[i].status = STAY_CLOSED
             => \/ stays'[i].status = STAY_CLOSED
                \/ /\ stays'[i].status = STAY_DELETED
                   /\ StepIs("delete_stay")
                   /\ IsBool(last'.ret, TRUE)
                   /\ Stays[i].stay_id = last'.args.stay_id]_vars

\* a stay that had been checked out (its checkout_date is set) was deleted by
\* delete_stay
C11_Witness ==
    /\ last.op = "delete_stay"
    /\ IsBool(last.ret, TRUE)
    /\ LET s == StayAt(last.args.stay_id)
       IN  /\ s # 0
           /\ Stays[s].status = STAY_DELETED
           /\ Stays[s].checkout_date = DATE_OUT

\* C12: the only status changes of a stay are Open to Closed, in a successful
\* checkout of that stay, and Open or Closed to Deleted, in a successful
\* delete_stay of that stay; no step moves a stay to Open
C12_StayTransitions ==
    [][\A i \in 1..Len(stays) :
          stays'[i].status # stays[i].status
          => \/ /\ stays[i].status = STAY_OPEN
                /\ stays'[i].status = STAY_CLOSED
                /\ StepIs("checkout")
                /\ IsBool(last'.ret, TRUE)
                /\ Stays[i].stay_id = last'.args.stay_id
             \/ /\ stays[i].status \in {STAY_OPEN, STAY_CLOSED}
                /\ stays'[i].status = STAY_DELETED
                /\ StepIs("delete_stay")
                /\ IsBool(last'.ret, TRUE)
                /\ Stays[i].stay_id = last'.args.stay_id]_vars

\* a checkout was tried on a stay deleted while Open: it was refused and the
\* stay is still Deleted
C12_Witness ==
    /\ last.op = "checkout"
    /\ IsBool(last.ret, FALSE)
    /\ LET s == StayAt(last.args.stay_id)
       IN  /\ s # 0
           /\ Stays[s].status = STAY_DELETED
           /\ Stays[s].checkout_date = <<>>

\* C13: the only status change of a keycard is Active to Deleted, in a
\* delete_keycard step or a checkout step; a Deleted keycard is never made
\* Active again
C13_KeycardActiveToDeletedOnly ==
    [][\A i \in 1..Len(keycards) :
          keycards'[i].status # keycards[i].status
          => /\ keycards[i].status = KEYCARD_ACTIVE
             /\ keycards'[i].status = KEYCARD_DELETED
             /\ (StepIs("delete_keycard") \/ StepIs("checkout"))]_vars

\* C14: for every room, the Active keycards carrying its room_id are at most
\* the room's max_cards
C14_ActiveCardsWithinMaxCards ==
    \A i \in 1..Len(Rooms) :
        Cardinality(ActiveCardsOf(Keycards, Rooms[i].room_id)) <= Rooms[i].max_cards

\* C15: a successful delete_stay rewrites only the slot of the targeted stay,
\* with status Deleted and updated_at set to the current time and every other
\* field kept; the rooms (the stay's room included), the keycards and the
\* guests are unchanged, also when the stay was Open
C15_DeleteStayFrame ==
    [][(StepIs("delete_stay") /\ IsBool(last'.ret, TRUE))
       => LET idx == StayAt(last'.args.stay_id)
          IN  /\ idx # 0
              /\ Len(stays') = Len(stays)
              /\ \A i \in 1..Len(stays) : i # idx => stays'[i] = stays[i]
              /\ stays'[idx] = [stays[idx] EXCEPT !.status = STAY_DELETED,
                                                  !.updated_at = now]
              /\ rooms' = rooms
              /\ keycards' = keycards
              /\ guests' = guests]_vars

\* an Open stay was deleted a second after its checkin: the stay carries the
\* new time, its room is still Occupied with the checkin's time, and the
\* cards issued to it are still Active
C15_Witness ==
    /\ last.op = "delete_stay"
    /\ IsBool(last.ret, TRUE)
    /\ LET s == StayAt(last.args.stay_id)
           r == RoomAt(Stays[s].room_id)
       IN  /\ s # 0
           /\ Stays[s].status = STAY_DELETED
           /\ Stays[s].checkout_date = <<>>
           /\ Stays[s].updated_at = 1
           /\ r # 0
           /\ Rooms[r].status = ROOM_ACTIVE_OCCUPIED
           /\ Rooms[r].updated_at = 0
           /\ Cardinality(ActiveCardsOf(Keycards, Stays[s].room_id)) = 2

\* C16: after a successful delete of a room, guest, stay or keycard the store
\* has the length it had, the listing with include_deleted = True has the
\* length it had and holds the record with the kind's Deleted status (0, or 9
\* for a stay), and the listing with include_deleted = False holds no record
\* with that id
C16_SoftDeleteKeepsRecord ==
    [][/\ (StepIs("delete_room") /\ IsBool(last'.ret, TRUE))
          => /\ Len(rooms') = Len(rooms)
             /\ Len(get_rooms(rooms', TRUE)) = Len(get_rooms(rooms, TRUE))
             /\ \E i \in DOMAIN get_rooms(rooms', TRUE) :
                    /\ get_rooms(rooms', TRUE)[i].room_id = last'.args.room_id
                    /\ get_rooms(rooms', TRUE)[i].status = 0
             /\ \A i \in DOMAIN get_rooms(rooms', FALSE) :
                    get_rooms(rooms', FALSE)[i].room_id # last'.args.room_id
       /\ (StepIs("delete_guest") /\ IsBool(last'.ret, TRUE))
          => /\ Len(guests') = Len(guests)
             /\ Len(get_guests(guests', TRUE)) = Len(get_guests(guests, TRUE))
             /\ \E i \in DOMAIN get_guests(guests', TRUE) :
                    /\ get_guests(guests', TRUE)[i].guest_id = last'.args.guest_id
                    /\ get_guests(guests', TRUE)[i].status = 0
             /\ \A i \in DOMAIN get_guests(guests', FALSE) :
                    get_guests(guests', FALSE)[i].guest_id # last'.args.guest_id
       /\ (StepIs("delete_stay") /\ IsBool(last'.ret, TRUE))
          => /\ Len(stays') = Len(stays)
             /\ Len(get_stays(stays', TRUE)) = Len(get_stays(stays, TRUE))
             /\ \E i \in DOMAIN get_stays(stays', TRUE) :
                    /\ get_stays(stays', TRUE)[i].stay_id = last'.args.stay_id
                    /\ get_stays(stays', TRUE)[i].status = 9
             /\ \A i \in DOMAIN get_stays(stays', FALSE) :
                    get_stays(stays', FALSE)[i].stay_id # last'.args.stay_id
       /\ (StepIs("delete_keycard") /\ IsBool(last'.ret, TRUE))
          => /\ Len(keycards') = Len(keycards)
             /\ Len(get_keycards(keycards', TRUE)) = Len(get_keycards(keycards, TRUE))
             /\ \E i \in DOMAIN get_keycards(keycards', TRUE) :
                    /\ get_keycards(keycards', TRUE)[i].keycard_id = last'.args.keycard_id
                    /\ get_keycards(keycards', TRUE)[i].status = 0
             /\ \A i \in DOMAIN get_keycards(keycards', FALSE) :
                    get_keycards(keycards', FALSE)[i].keycard_id
                        # last'.args.keycard_id]_vars

\* a stay was deleted after one of its two keycards: both listings with
\* include_deleted = True are complete, the default stay listing is empty and
\* the default keycard listing holds the other card only
C16_Witness ==
    /\ last.op = "delete_stay"
    /\ IsBool(last.ret, TRUE)
    /\ Len(get_stays(stays, TRUE)) = 1
    /\ get_stays(stays, TRUE)[1].status = STAY_DELETED
    /\ get_stays(stays, FALSE) = <<>>
    /\ Len(get_keycards(keycards, TRUE)) = 2
    /\ Len(get_keycards(keycards, FALSE)) = 1
    /\ get_keycards(keycards, TRUE)[1].status = KEYCARD_DELETED

\* C17: no step shortens any of the four stores, and every add (add_room,
\* add_guest, add_keycard, and the stay and keycards of a successful checkin)
\* writes behind the last slot, leaving every earlier slot, soft-deleted ones
\* included, as it was
C17_SlotCountOnlyGrows ==
    [][/\ Len(rooms') >= Len(rooms)
       /\ Len(guests') >= Len(guests)
       /\ Len(stays') >= Len(stays)
       /\ Len(keycards') >= Len(keycards)
       /\ StepIs("add_room")
          => (Len(rooms') = Len(rooms) + 1 /\ SubSeq(rooms', 1, Len(rooms)) = rooms)
       /\ StepIs("add_guest")
          => (Len(guests') = Len(guests) + 1 /\ SubSeq(guests', 1, Len(guests)) = guests)
       /\ StepIs("add_keycard")
          => /\ Len(keycards') = Len(keycards) + 1
             /\ SubSeq(keycards', 1, Len(keycards)) = keycards
       /\ (StepIs("checkin") /\ IsObj(last'.ret))
          => /\ Len(stays') = Len(stays) + 1
             /\ SubSeq(stays', 1, Len(stays)) = stays
             /\ Len(keycards') = Len(keycards) + last'.args.cards_issued
             /\ SubSeq(keycards', 1, Len(keycards)) = keycards]_vars

\* a room was added after the first room had been soft-deleted: it took a new
\* slot and the Deleted record is still in the first
C17_Witness ==
    /\ last.op = "add_room"
    /\ Len(rooms) = 2
    /\ Rooms[1].status = ROOM_DELETED
    /\ Rooms[2].status = ROOM_ACTIVE_VACANT
    /\ Rooms[2] = last.ret.val

\* C18: the id add_room takes from _next_id is 1 when the store held no
\* record, and otherwise exceeds the id of every record the store held, in any
\* status, and is one more than one of them
C18_NextIdIsMaxPlusOne ==
    last.op = "add_room"
    => LET n == Len(rooms)
           id == last.ret.val.room_id
       IN  /\ n >= 1
           /\ Rooms[n].room_id = id
           /\ n = 1 => id = 1
           /\ n > 1 => /\ \A i \in 1..(n - 1) : Rooms[i].room_id < id
                       /\ \E i \in 1..(n - 1) : Rooms[i].room_id + 1 = id

\* a room was added to a store holding the ids 3, 7, 2, the record with id 7
\* soft-deleted: it got id 8
C18_Witness ==
    /\ last.op = "add_room"
    /\ Len(rooms) = 4
    /\ Rooms[1].room_id = 3
    /\ Rooms[2].room_id = 7
    /\ Rooms[2].status = ROOM_DELETED
    /\ Rooms[3].room_id = 2
    /\ last.ret.val.room_id = 8

\* C19: in each store the ids are strictly increasing in slot order (so
\* pairwise distinct), and no step changes the id held by a slot, whether the
\* record is soft-deleted or updated, the update naming the id field or not
C19_IdsDistinctIncreasing ==
    [][/\ \A i \in 1..Len(rooms) : rooms'[i].room_id = rooms[i].room_id
       /\ \A i \in 1..Len(guests) : guests'[i].guest_id = guests[i].guest_id
       /\ \A i \in 1..Len(stays) : stays'[i].stay_id = stays[i].stay_id
       /\ \A i \in 1..Len(keycards) : keycards'[i].keycard_id = keycards[i].keycard_id
       /\ \A i, j \in 1..Len(rooms') : i < j => rooms'[i].room_id < rooms'[j].room_id
       /\ \A i, j \in 1..Len(guests') : i < j => guests'[i].guest_id < guests'[j].guest_id
       /\ \A i, j \in 1..Len(stays') : i < j => stays'[i].stay_id < stays'[j].stay_id
       /\ \A i, j \in 1..Len(keycards') :
            i < j => keycards'[i].keycard_id < keycards'[j].keycard_id]_vars

\* update_room(1, room_id=2) was called on the soft-deleted first of two
\* rooms and returned the room: the two rooms still carry the ids 1 and 2
C19_Witness ==
    /\ last.op = "update_room"
    /\ IsObj(last.ret)
    /\ last.args.room_id = 1
    /\ last.args.fields = [room_id |-> 2]
    /\ Len(rooms) = 2
    /\ Rooms[1].room_id = 1
    /\ Rooms[1].status = ROOM_DELETED
    /\ Rooms[2].room_id = 2

\* C20: every append makes len(store) one more than it was, returns the old
\* length as the index, and the appended record is what is read back at index
\* len(store) - 1, whether the file ended in whole slots or in a partial one
C20_AppendMonotonic ==
    [][StepIs("append")
       => LET n == FixedStore_len(file, KEYCARD_SIZE)
              n2 == FixedStore_len(file', KEYCARD_SIZE)
          IN  /\ n2 = n + 1
              /\ last'.ret = RetObj(n)
              /\ read_at(file', n2 - 1, KEYCARD_SIZE) = RetObj(last'.args.data)]_vars

\* a record was appended to a file of one whole slot and a partial one: the
\* file is two whole slots, the second holding the record
C20_Witness ==
    /\ last.op = "append"
    /\ last.args.size_before > KEYCARD_SIZE
    /\ last.args.size_before % KEYCARD_SIZE # 0
    /\ Len(file) = 2 * KEYCARD_SIZE
    /\ last.ret = RetObj(1)
    /\ read_at(file, 1, KEYCARD_SIZE) = RetObj(last.args.data)

\* the text fields of each record class, with their byte budgets
TextBudget ==
    [op \in {"Room.pack", "Guest.pack", "Stay.pack", "Keycard.pack"} |->
        CASE op = "Room.pack" -> {<<"room_type", ROOM_TYPE_LEN>>}
          [] op = "Guest.pack" -> {<<"full_name", FULL_NAME_LEN>>, <<"phone", PHONE_LEN>>,
                                   <<"id_no", ID_NO_LEN>>}
          [] op = "Stay.pack" -> {<<"checkin_date", DATE_LEN>>, <<"checkout_date", DATE_LEN>>}
          [] op = "Keycard.pack" -> {<<"serial", SERIAL_LEN>>}]

\* the texts of the value packed last fit their byte budgets
TextsFit ==
    \A fb \in TextBudget[last.op] : Len(utf8_encode(last.args.v[fb[1]])) <= fb[2]

\* a text that does not end in U+0000 and holds no surrogate code point
CleanText(x) ==
    /\ x = <<>> \/ x[Len(x)] # 0
    /\ \A i \in 1..Len(x) : x[i] < 55296 \/ x[i] > 57343

\* C25 as stated: for each record class, a value whose texts fit their byte
\* budgets comes back from unpack(pack(v)) equal in all fields
C25_RoundTrip ==
    (last.op \in DOMAIN TextBudget /\ TextsFit) => last.ret.val = last.args.v

\* C25 as amended: for each record class, a value whose texts fit their byte
\* budgets, do not end in U+0000 and hold no surrogate code point comes back
\* from unpack(pack(v)) equal in all fields
C25_RoundTripCleanTexts ==
    (/\ last.op \in DOMAIN TextBudget
     /\ TextsFit
     /\ \A fb \in TextBudget[last.op] : CleanText(last.args.v[fb[1]]))
    => last.ret.val = last.args.v

\* a guest with a name of a 3-byte and a 4-byte character, a phone with an
\* inner U+0000 and the largest id came back as it was packed
C25_Witness ==
    /\ last.op = "Guest.pack"
    /\ last.args.v.full_name = EURO_GRIN
    /\ last.args.v.phone = NUL_MID
    /\ last.args.v.guest_id = 2147483647
    /\ Len(file) = GUEST_SIZE
    /\ last.ret.val = last.args.v

\* C26: fix_bytes returns exactly size bytes for every text: the first size
\* bytes of its UTF-8 encoding, followed by zeros when the encoding is shorter
C26_FixBytesLength ==
    last.op = "fix_bytes"
    => LET enc == utf8_encode(last.args.s)
           size == last.args.size
       IN  /\ Len(file) = size
           /\ \A i \in 1..size : file[i] = IF i <= Len(enc) THEN enc[i] ELSE 0

\* a text of six 2-byte characters was cut to 10 bytes, and a shorter text
\* padded: here the cut one
C26_Witness ==
    /\ last.op = "fix_bytes"
    /\ last.args.s = E_ACUTE_6
    /\ last.args.size = DATE_LEN
    /\ Len(file) = 10
    /\ file[9] = 195
    /\ file[10] = 169

\* C27: the byte block written for every slot of every store has exactly the
\* store's slot size (Room 64, Guest 112, Stay 64, Keycard 32), which is what
\* _write_at asserts
C27_PackedSlotSizes ==
    /\ \A i \in 1..Len(rooms) : Len(ljust(ROOM_STRUCT_pack(rooms[i]), ROOM_SIZE)) = 64
    /\ \A i \in 1..Len(guests) : Len(ljust(GUEST_STRUCT_pack(guests[i]), GUEST_SIZE)) = 112
    /\ \A i \in 1..Len(stays) : Len(ljust(STAY_STRUCT_pack(stays[i]), STAY_SIZE)) = 64
    /\ \A i \in 1..Len(keycards) :
            Len(ljust(KEYCARD_STRUCT_pack(keycards[i]), KEYCARD_SIZE)) = 32

\* a checkin wrote a stay, two keycards whose 14-character serial was cut to
\* the field, and the room: the four stores hold blocks of 64, 112, 64 and 32
\* bytes
C27_Witness ==
    /\ last.op = "checkin"
    /\ IsObj(last.ret)
    /\ last.args.cards_issued = 2
    /\ Len(card_serial(last.args.room_id, last.args.guest_id, now, 1)) > SERIAL_LEN
    /\ Len(Room_pack_bytes(Rooms[1])) = 64
    /\ Len(Guest_pack_bytes(Guests[1])) = 112
    /\ Len(Stay_pack_bytes(Stays[Len(stays)])) = 64
    /\ Len(Keycard_pack_bytes(Keycards[Len(keycards)])) = 32

\* slot of the keycard carrying an id, 0 if none
KeycardAt(keycard_id) == find_first(keycard_id_key(Keycards, keycard_id))

\* C21: a successful update_room / update_guest / update_keycard rewrites only
\* the slot where the record was found: there the id and created_at are kept,
\* updated_at is the current time, every other field named in the call has the
\* supplied value and every field not named is kept; the other slots, the
\* store's length and the other stores are unchanged
C21_UpdateFrame ==
    [][/\ (StepIs("update_room") /\ IsObj(last'.ret))
          => LET idx == RoomAt(last'.args.room_id)
                 old == Rooms[idx]
                 new == Room_unpack(rooms'[idx])
                 f == last'.args.fields
             IN  /\ idx # 0
                 /\ Len(rooms') = Len(rooms)
                 /\ \A i \in 1..Len(rooms) : i # idx => rooms'[i] = rooms[i]
                 /\ new.room_id = old.room_id
                 /\ new.created_at = old.created_at
                 /\ new.updated_at = now
                 /\ \A k \in DOMAIN old \ {"room_id", "created_at", "updated_at"} :
                        new[k] = IF k \in DOMAIN f THEN f[k] ELSE old[k]
                 /\ UNCHANGED <<guests, stays, keycards>>
       /\ (StepIs("update_guest") /\ IsObj(last'.ret))
          => LET idx == GuestAt(last'.args.guest_id)
                 old == Guests[idx]
                 new == Guest_unpack(guests'[idx])
                 f == last'.args.fields
             IN  /\ idx # 0
                 /\ Len(guests') = Len(guests)
                 /\ \A i \in 1..Len(guests) : i # idx => guests'[i] = guests[i]
                 /\ new.guest_id = old.guest_id
                 /\ new.created_at = old.created_at
                 /\ new.updated_at = now
                 /\ \A k \in DOMAIN old \ {"guest_id", "created_at", "updated_at"} :
                        new[k] = IF k \in DOMAIN f THEN f[k] ELSE old[k]
                 /\ UNCHANGED <<rooms, stays, keycards>>
       /\ (StepIs("update_keycard") /\ IsObj(last'.ret))
          => LET idx == KeycardAt(last'.args.keycard_id)
                 old == Keycards[idx]
                 new == Keycard_unpack(keycards'[idx])
                 f == last'.args.fields
             IN  /\ idx # 0
                 /\ Len(keycards') = Len(keycards)
                 /\ \A i \in 1..Len(keycards) : i # idx => keycards'[i] = keycards[i]
                 /\ new.keycard_id = old.keycard_id
                 /\ new.created_at = old.created_at
                 /\ new.updated_at = now
                 /\ \A k \in DOMAIN old \ {"keycard_id", "created_at", "updated_at"} :
                        new[k] = IF k \in DOMAIN f THEN f[k] ELSE old[k]
                 /\ UNCHANGED <<rooms, guests, stays>>]_vars

\* the second of two stored rooms was updated a second after the start, with
\* room_id, room_type and floor in the call: its type and floor are the new
\* ones, its id and created_at the old ones, and the first room is as it was
C21_Witness ==
    /\ last.op = "update_room"
    /\ IsObj(last.ret)
    /\ last.args.room_id = 2
    /\ last.args.fields = [room_id |-> 2, room_type |-> SUITE, floor |-> 3]
    /\ Len(rooms) = 2
    /\ Rooms[2].room_id = 2
    /\ Rooms[2].room_type = SUITE
    /\ Rooms[2].floor = 3
    /\ Rooms[2].created_at = 0
    /\ Rooms[2].updated_at = 1
    /\ Rooms[1].room_type = STD
    /\ Rooms[1].updated_at = 0

\* C22: an update_room / update_guest / update_keycard call and a delete_room /
\* delete_guest / delete_stay / delete_keycard call naming an id that no record
\* of the store carries, whatever the records' statuses, returns None
\* (update) or False (delete) and leaves the four stores unchanged
C22_UnknownIdChangesNothing ==
    [][/\ (StepIs("update_room")
            /\ \A i \in 1..Len(Rooms) : Rooms[i].room_id # last'.args.room_id)
          => IsNone(last'.ret) /\ UNCHANGED stores
       /\ (StepIs("update_guest")
            /\ \A i \in 1..Len(Guests) : Guests[i].guest_id # last'.args.guest_id)
          => IsNone(last'.ret) /\ UNCHANGED stores
       /\ (StepIs("update_keycard")
            /\ \A i \in 1..Len(Keycards) :
                    Keycards[i].keycard_id # last'.args.keycard_id)
          => IsNone(last'.ret) /\ UNCHANGED stores
       /\ (StepIs("delete_room")
            /\ \A i \in 1..Len(Rooms) : Rooms[i].room_id # last'.args.room_id)
          => IsBool(last'.ret, FALSE) /\ UNCHANGED stores
       /\ (StepIs("delete_guest")
            /\ \A i \in 1..Len(Guests) : Guests[i].guest_id # last'.args.guest_id)
          => IsBool(last'.ret, FALSE) /\ UNCHANGED stores
       /\ (StepIs("delete_stay")
            /\ \A i \in 1..Len(Stays) : Stays[i].stay_id # last'.args.stay_id)
          => IsBool(last'.ret, FALSE) /\ UNCHANGED stores
       /\ (StepIs("delete_keycard")
            /\ \A i \in 1..Len(Keycards) :
                    Keycards[i].keycard_id # last'.args.keycard_id)
          => IsBool(last'.ret, FALSE) /\ UNCHANGED stores]_vars

\* update_room named room 2 while the rooms store held only room 1, a stay and
\* a deleted keycard were stored: the call returned None and the room is as
\* it was stored
C22_Witness ==
    /\ last.op = "update_room"
    /\ last.args.room_id = 2
    /\ last.args.fields = [room_type |-> SUITE, capacity |-> 4]
    /\ IsNone(last.ret)
    /\ Len(rooms) = 1
    /\ Rooms[1].room_id = 1
    /\ Rooms[1].room_type = STD
    /\ Rooms[1].updated_at = 0
    /\ Len(stays) = 1
    /\ Len(keycards) = 1
    /\ Keycards[1].status = KEYCARD_DELETED

\* C23: in every reachable state the status of each room is 0, 1 or 2, of each
\* guest 0 or 1, of each stay 0, 1 or 9 and of each keycard 0 or 1
C23_StatusInDeclaredSet ==
    /\ \A i \in 1..Len(Rooms) :
          Rooms[i].status \in {ROOM_DELETED, ROOM_ACTIVE_VACANT, ROOM_ACTIVE_OCCUPIED}
    /\ \A i \in 1..Len(Guests) : Guests[i].status \in {GUEST_DELETED, GUEST_ACTIVE}
    /\ \A i \in 1..Len(Stays) :
          Stays[i].status \in {STAY_CLOSED, STAY_OPEN, STAY_DELETED}
    /\ \A i \in 1..Len(Keycards) :
          Keycards[i].status \in {KEYCARD_DELETED, KEYCARD_ACTIVE}

\* the records of recs at the slots in keep, in ascending slot order
InSlotOrder(recs, keep) ==
    [k \in 1..Cardinality(keep) |->
        recs[CHOOSE i \in keep : Cardinality({j \in keep : j <= i}) = k]]

\* C24: get_rooms, get_guests, get_stays and get_keycards return the records
\* in slot order: with include_deleted = FALSE exactly the records whose
\* status is not the kind's Deleted value (0 for rooms, guests and keycards,
\* 9 for stays, so a Closed stay is returned), with include_deleted = TRUE
\* every record
C24_QueriesInSlotOrder ==
    /\ get_rooms(rooms, TRUE) = Rooms
    /\ get_guests(guests, TRUE) = Guests
    /\ get_stays(stays, TRUE) = Stays
    /\ get_keycards(keycards, TRUE) = Keycards
    /\ get_rooms(rooms, FALSE)
        = InSlotOrder(Rooms, {i \in 1..Len(rooms) : Rooms[i].status # ROOM_DELETED})
    /\ get_guests(guests, FALSE)
        = InSlotOrder(Guests, {i \in 1..Len(guests) : Guests[i].status # GUEST_DELETED})
    /\ get_stays(stays, FALSE)
        = InSlotOrder(Stays, {i \in 1..Len(stays) : Stays[i].status # STAY_DELETED})
    /\ get_keycards(keycards, FALSE)
        = InSlotOrder(Keycards,
                      {i \in 1..Len(keycards) : Keycards[i].status # KEYCARD_DELETED})

\* of three rooms the second was deleted: get_rooms(FALSE) returns the first
\* and the third in that order, get_rooms(TRUE) all three
C24_Witness ==
    /\ Len(rooms) = 3
    /\ Rooms[1].status = ROOM_ACTIVE_VACANT
    /\ Rooms[2].status = ROOM_DELETED
    /\ Rooms[3].status = ROOM_ACTIVE_VACANT
    /\ get_rooms(rooms, FALSE) = <<Rooms[1], Rooms[3]>>
    /\ Len(get_rooms(rooms, TRUE)) = 3
    /\ get_rooms(rooms, TRUE)[2].room_id = 2

\* C28: while a checkin is between two of its writes, and after the process
\* stopped there, the files hold exactly the writes made so far in the order
\* stay, keycards, room: once the first write is made the stay is the last
\* record of the stays file and is Open for the room, as many keycards of the
\* room as loop turns were made are the last records of the keycards file,
\* and the room is still stored Vacant
C28_CheckinWritesInOrder ==
    last.ret.kind \in {"pending", "stopped"}
    => LET p == last.ret
           a == last.args
       IN  /\ Rooms[p.r_idx].room_id = a.room_id
           /\ Rooms[p.r_idx].status = ROOM_ACTIVE_VACANT
           /\ p.pc = 1 => p.i = 0 /\ p.stay = None
           /\ p.pc >= 2 =>
                /\ p.i = p.pc - 2
                /\ Len(stays) >= 1
                /\ Stays[Len(stays)] = p.stay
                /\ p.stay.status = STAY_OPEN
                /\ p.stay.room_id = a.room_id
                /\ Len(stays) \in OpenStaysOf(a.room_id)
                /\ Len(keycards) >= p.i
                /\ \A j \in 1..p.i :
                      /\ Keycards[Len(keycards) - p.i + j].room_id = a.room_id
                      /\ Keycards[Len(keycards) - p.i + j].status = KEYCARD_ACTIVE

\* a checkin with two cards stopped after the stay and the first keycard were
\* written: the stay is Open for room 1, one keycard is stored and room 1 is
\* still Vacant
C28_Witness ==
    /\ last.op = "stop"
    /\ last.args.room_id = 1
    /\ last.args.cards_issued = 2
    /\ last.ret.pc = 3
    /\ Len(stays) = 1
    /\ Stays[1].status = STAY_OPEN
    /\ Stays[1].room_id = 1
    /\ Len(keycards) = 1
    /\ Rooms[1].room_id = 1
    /\ Rooms[1].status = ROOM_ACTIVE_VACANT

\* the complete slot k (counted from 0) of the keycard file
SlotBytes(k) == SubSeq(file, k * KEYCARD_SIZE + 1, (k + 1) * KEYCARD_SIZE)

\* C29: whatever the size of the keycard file, len(store) is the number of
\* complete slots, _read_at returns the slot's bytes for an index below that
\* count and None for an index at or beyond it, iter yields exactly the
\* complete slots with their records in ascending index order, and
\* find_first returns the first complete slot whose record matches, None if
\* there is none
C29_PartialSlotTolerated ==
    LET n == FixedStore_len(file, KEYCARD_SIZE)
    IN  /\ n * KEYCARD_SIZE <= Len(file)
        /\ Len(file) < (n + 1) * KEYCARD_SIZE
        /\ \A k \in 0..(n - 1) : read_at(file, k, KEYCARD_SIZE) = RetObj(SlotBytes(k))
        /\ \A k \in n..(n + 2) : read_at(file, k, KEYCARD_SIZE) = None
        /\ last.op = "iter"
            => last.ret = RetObj([k \in 1..n |->
                                    <<k - 1, Keycard_unpack_bytes(SlotBytes(k - 1))>>])
        /\ last.op = "find_first"
            => LET hits == {k \in 0..(n - 1) :
                                Keycard_unpack_bytes(SlotBytes(k)).keycard_id
                                    = last.args.keycard_id}
               IN  IF hits = {} THEN last.ret = None
                   ELSE \E k \in hits :
                          /\ \A j \in hits : k <= j
                          /\ last.ret = RetObj(<<k, Keycard_unpack_bytes(SlotBytes(k))>>)

\* a file of one complete slot and a partial one was scanned: iter yielded
\* slot 0 alone
C29_Witness ==
    /\ last.op = "iter"
    /\ Len(file) > KEYCARD_SIZE
    /\ Len(file) % KEYCARD_SIZE # 0
    /\ Len(last.ret.val) = 1
    /\ last.ret.val[1][1] = 0
    /\ last.ret.val[1][2].keycard_id = 1094795585

\* C30: after a successful checkin the keycards it appended, the last
\* cards_issued records of the keycards store, carry pairwise distinct stored
\* serials
C30_IssuedSerialsDistinct ==
    (last.op = "checkin" /\ IsObj(last.ret))
    => LET n == last.args.cards_issued
           m == Len(keycards)
       IN  \A i, j \in (m - n + 1)..m :
              i # j => Keycards[i].serial # Keycards[j].serial

\* C31: an update_room / update_guest / update_keycard call naming the id of a
\* record whose status is Deleted returns the record, stores every supplied
\* field other than the id and created_at, and stores the status Deleted
\* unless status is among the supplied fields
C31_UpdateReachesDeleted ==
    [][/\ StepIs("update_room")
          => \A i \in 1..Len(Rooms) :
                (Rooms[i].room_id = last'.args.room_id /\ Rooms[i].status = ROOM_DELETED)
                => LET f == last'.args.fields
                       new == Room_unpack(rooms'[i])
                   IN  /\ IsObj(last'.ret)
                       /\ \A k \in (DOMAIN f \cap DOMAIN Rooms[i]) \ {"room_id", "created_at"} :
                              new[k] = f[k]
                       /\ "status" \notin DOMAIN f => new.status = ROOM_DELETED
       /\ StepIs("update_guest")
          => \A i \in 1..Len(Guests) :
                (Guests[i].guest_id = last'.args.guest_id
                    /\ Guests[i].status = GUEST_DELETED)
                => LET f == last'.args.fields
                       new == Guest_unpack(guests'[i])
                   IN  /\ IsObj(last'.ret)
                       /\ \A k \in (DOMAIN f \cap DOMAIN Guests[i]) \ {"guest_id", "created_at"} :
                              new[k] = f[k]
                       /\ "status" \notin DOMAIN f => new.status = GUEST_DELETED
       /\ StepIs("update_keycard")
          => \A i \in 1..Len(Keycards) :
                (Keycards[i].keycard_id = last'.args.keycard_id
                    /\ Keycards[i].status = KEYCARD_DELETED)
                => LET f == last'.args.fields
                       new == Keycard_unpack(keycards'[i])
                   IN  /\ IsObj(last'.ret)
                       /\ \A k \in (DOMAIN f \cap DOMAIN Keycards[i])
                                        \ {"keycard_id", "created_at"} :
                              new[k] = f[k]
                       /\ "status" \notin DOMAIN f => new.status = KEYCARD_DELETED]_vars

\* update_guest(1, phone = ...) on the soft-deleted guest 1 returned the guest:
\* the stored phone is the new one and the stored status is still Deleted
C31_Witness ==
    /\ last.op = "update_guest"
    /\ last.args.guest_id = 1
    /\ last.args.fields = [phone |-> PHONE2]
    /\ IsObj(last.ret)
    /\ Len(guests) = 1
    /\ Guests[1].status = GUEST_DELETED
    /\ Guests[1].phone = PHONE2
    /\ Guests[1].full_name = JOHN

\* C32: in every reachable state every room whose status is Occupied is the
\* room of at least one stay whose status is Open
C32_OccupiedRoomHasOpenStay ==
    \A i \in 1..Len(Rooms) :
        Rooms[i].status = ROOM_ACTIVE_OCCUPIED => OpenStaysOf(Rooms[i].room_id) # {}

\* C33: in every reachable state the room of every stay whose status is Open
\* is stored with status Occupied
C33_OpenStayRoomOccupied ==
    \A i \in 1..Len(Stays) :
        Stays[i].status = STAY_OPEN
        => /\ RoomAt(Stays[i].room_id) # 0
           /\ Rooms[RoomAt(Stays[i].room_id)].status = ROOM_ACTIVE_OCCUPIED

\* C34: in every reachable state each stay whose status is Open has an empty
\* checkout_date and cards_returned = 0, and each stay whose status is Closed
\* has cards_returned = cards_issued
C34_StayFieldsByStatus ==
    \A i \in 1..Len(Stays) :
        /\ Stays[i].status = STAY_OPEN
            => Stays[i].checkout_date = <<>> /\ Stays[i].cards_returned = 0
        /\ Stays[i].status = STAY_CLOSED
            => Stays[i].cards_returned = Stays[i].cards_issued

\* a stay with two cards was checked out and the room checked into again: the
\* Closed stay has two cards returned and its checkout date, the Open one
\* none
C34_Witness ==
    /\ Len(stays) = 2
    /\ Stays[1].status = STAY_CLOSED
    /\ Stays[1].cards_issued = 2
    /\ Stays[1].cards_returned = 2
    /\ Stays[1].checkout_date = DATE_OUT
    /\ Stays[2].status = STAY_OPEN
    /\ Stays[2].checkout_date = <<>>
    /\ Stays[2].cards_returned = 0

\* C35: in every reachable state the guest_id of each stay is the id of a
\* record of the guests store and its room_id the id of a record of the rooms
\* store, whatever the status of those records
C35_StayReferencesExist ==
    \A i \in 1..Len(Stays) :
        /\ \E g \in 1..Len(Guests) : Guests[g].guest_id = Stays[i].guest_id
        /\ \E r \in 1..Len(Rooms) : Rooms[r].room_id = Stays[i].room_id

\* the room and the guest of a stay were both soft-deleted: their records are
\* still stored under the ids the stay carries
C35_Witness ==
    /\ Len(stays) = 1
    /\ Stays[1].room_id = 1
    /\ Stays[1].guest_id = 1
    /\ Len(rooms) = 1
    /\ Rooms[1].room_id = 1
    /\ Rooms[1].status = ROOM_DELETED
    /\ Len(guests) = 1
    /\ Guests[1].guest_id = 1
    /\ Guests[1].status = GUEST_DELETED

\* C36: the record returned by add_room, add_guest, add_keycard, update_room,
\* update_guest and update_keycard equals, field for field, the record read
\* back from the slot of the store that holds its id
C36_ReturnedEqualsStored ==
    /\ (last.op \in {"add_room", "update_room"} /\ IsObj(last.ret))
        => /\ RoomAt(last.ret.val.room_id) # 0
           /\ Rooms[RoomAt(last.ret.val.room_id)] = last.ret.val
    /\ (last.op \in {"add_guest", "update_guest"} /\ IsObj(last.ret))
        => /\ GuestAt(last.ret.val.guest_id) # 0
           /\ Guests[GuestAt(last.ret.val.guest_id)] = last.ret.val
    /\ (last.op \in {"add_keycard", "update_keycard"} /\ IsObj(last.ret))
        => /\ KeycardAt(last.ret.val.keycard_id) # 0
           /\ Keycards[KeycardAt(last.ret.val.keycard_id)] = last.ret.val

\* C37: a delete_room step changes no slot but the one of the room it names
\* and a delete_guest step no slot but the one of the guest it names; no stay
\* and no keycard changes, whether or not an Open stay or Active keycards
\* carry the id of the deleted room or guest
C37_DeleteRoomGuestFrame ==
    [][/\ StepIs("delete_room")
          => /\ Len(rooms') = Len(rooms)
             /\ \A i \in 1..Len(rooms) :
                    rooms'[i] # rooms[i] => i = RoomAt(last'.args.room_id)
             /\ UNCHANGED <<guests, stays, keycards>>
       /\ StepIs("delete_guest")
          => /\ Len(guests') = Len(guests)
             /\ \A i \in 1..Len(guests) :
                    guests'[i] # guests[i] => i = GuestAt(last'.args.guest_id)
             /\ UNCHANGED <<rooms, stays, keycards>>]_vars

\* room 1 was deleted while a stay of room 1 was Open and a keycard of room 1
\* Active: the stay is still Open, the keycard still Active and room 2 as it
\* was
C37_Witness ==
    /\ last.op = "delete_room"
    /\ last.args.room_id = 1
    /\ IsBool(last.ret, TRUE)
    /\ Len(rooms) = 2
    /\ Rooms[1].status = ROOM_DELETED
    /\ Rooms[2].status = ROOM_ACTIVE_VACANT
    /\ Len(stays) = 1
    /\ Stays[1].room_id = 1
    /\ Stays[1].status = STAY_OPEN
    /\ Len(keycards) >= 1
    /\ Keycards[1].room_id = 1
    /\ Keycards[1].status = KEYCARD_ACTIVE

\* the statuses of the records of four stores, slot by slot
StatusesOf(r, g, st, k) ==
    <<[i \in 1..Len(r) |-> r[i].status],
      [i \in 1..Len(g) |-> g[i].status],
      [i \in 1..Len(st) |-> st[i].status],
      [i \in 1..Len(k) |-> k[i].status]>>

\* a step that leaves every status and every store length as it was
StatusesKept ==
    StatusesOf(rooms', guests', stays', keycards')
        = StatusesOf(rooms, guests, stays, keycards)

\* C38: a delete_room / delete_guest / delete_stay / delete_keycard call naming
\* a record whose status is already Deleted returns True and leaves the
\* status of every record and the length of every store as they were
C38_DeleteIdempotent ==
    [][/\ (StepIs("delete_room")
            /\ \E i \in 1..Len(Rooms) : /\ Rooms[i].room_id = last'.args.room_id
                                        /\ Rooms[i].status = ROOM_DELETED)
          => IsBool(last'.ret, TRUE) /\ StatusesKept
       /\ (StepIs("delete_guest")
            /\ \E i \in 1..Len(Guests) : /\ Guests[i].guest_id = last'.args.guest_id
                                         /\ Guests[i].status = GUEST_DELETED)
          => IsBool(last'.ret, TRUE) /\ StatusesKept
       /\ (StepIs("delete_stay")
            /\ \E i \in 1..Len(Stays) : /\ Stays[i].stay_id = last'.args.stay_id
                                        /\ Stays[i].status = STAY_DELETED)
          => IsBool(last'.ret, TRUE) /\ StatusesKept
       /\ (StepIs("delete_keycard")
            /\ \E i \in 1..Len(Keycards) :
                    /\ Keycards[i].keycard_id = last'.args.keycard_id
                    /\ Keycards[i].status = KEYCARD_DELETED)
          => IsBool(last'.ret, TRUE) /\ StatusesKept]_vars

\* delete_stay named the stay that was already Deleted, a second later: it
\* returned True, the stay is Deleted as before and carries the new time
C38_Witness ==
    /\ last.op = "delete_stay"
    /\ last.args.stay_id = 1
    /\ IsBool(last.ret, TRUE)
    /\ Len(stays) = 1
    /\ Stays[1].status = STAY_DELETED
    /\ Stays[1].updated_at = 1
    /\ Len(rooms) = 1
    /\ Rooms[1].status = ROOM_ACTIVE_OCCUPIED

\* C39: when the call right after a successful checkout is a checkin on the
\* room of the checked-out stay, that room is not Deleted, the guest named is
\* Active and the card count is between 0 and the room's max_cards, the
\* checkin returns a stay whose id is greater than the id of every stay
\* stored before
C39_RoomReusableAfterCheckout ==
    [][(/\ last.op = "checkout"
        /\ IsBool(last.ret, TRUE)
        /\ StepIs("checkin")
        /\ LET room_id == Stays[StayAt(last.args.stay_id)].room_id
               r == RoomAt(room_id)
           IN  /\ last'.args.room_id = room_id
               /\ r # 0
               /\ Rooms[r].status # ROOM_DELETED
               /\ last'.args.cards_issued >= 0
               /\ last'.args.cards_issued <= Rooms[r].max_cards
        /\ \E g \in 1..Len(Guests) : /\ Guests[g].guest_id = last'.args.guest_id
                                     /\ Guests[g].status = GUEST_ACTIVE)
       => /\ IsObj(last'.ret)
          /\ \A i \in 1..Len(Stays) : last'.ret.val.stay_id > Stays[i].stay_id]_vars

\* room 1 was checked into, checked out of and checked into again with two
\* cards: the second stay is Open with id 2, the first Closed with id 1
C39_Witness ==
    /\ last.op = "checkin"
    /\ IsObj(last.ret)
    /\ last.ret.val.stay_id = 2
    /\ last.args.room_id = 1
    /\ last.args.cards_issued = 2
    /\ Len(stays) = 2
    /\ Stays[1].stay_id = 1
    /\ Stays[1].status = STAY_CLOSED
    /\ Stays[1].room_id = 1
    /\ Stays[2].status = STAY_OPEN
    /\ Rooms[1].status = ROOM_ACTIVE_OCCUPIED

====
